---- MODULE Spec2Model ----
(***************************************************************************)
(* Visualization-transform worker (crates/worker-visualizations-py).       *)
(*                                                                         *)
(* Spec      the worker as shipped: the fetch loop hands every fetched     *)
(*           message to a message_handler task, which decodes it and runs  *)
(*           handle_job.  process_visualization_job reads                  *)
(*           job.vector_database_config, a field the decoded envelope      *)
(*           (models.py) does not have, so the pipeline of every job       *)
(*           raises AttributeError before its first stage.                 *)
(* SpecOrch  one delivery handled by handle_job with the orchestrator      *)
(*           VisualizationProcessor.process_job entered directly (the      *)
(*           stages, the progress callback, the budget of wait_for, the    *)
(*           upload).                                                      *)
(* SpecRedelivery                                                          *)
(*           SpecOrch with the broker delivering a message again while its *)
(*           earlier handler still awaits the pipeline (ack_wait is        *)
(*           shorter than the budget); the broker calls all return.        *)
(* SpecLoad  the subscription, the fetch loop and the occupancy of         *)
(*           handle_job, handlers counted, against the consumer's          *)
(*           max_ack_pending window.                                       *)
(* SpecMain  main(): initialize, the health server, the connection, the    *)
(*           subscription attempts, the fetch loop with its handler tasks  *)
(*           counted, the signal, and the finally clause (drain, closes).  *)
(* SpecLabels                                                              *)
(*           VisualizationProcessor._generate_cluster_labels on every      *)
(*           labelling of a few points: numeric labels, or the batches of  *)
(*           LLM naming calls, each of which answers or raises.            *)
(* SpecFetch the fetch loop after a startup without failures, with the     *)
(*           errors of psub.fetch told apart: the error counter and the    *)
(*           sleep that follows each error.                                *)
(* SpecLoop  the event loop while handlers do their I/O: a call that does  *)
(*           not yield blocks the fetch loop and the health endpoints.     *)
(* SpecFonts patch_html_fonts and verify_no_external_requests on small     *)
(*           documents of elements that refer to URLs.                     *)
(* SpecDecode                                                              *)
(*           the validation of a payload by VisualizationTransformJob.     *)
(* SpecCancel                                                              *)
(*           SpecMain with the cancellation of the handler tasks that are  *)
(*           still pending when main() returns.                            *)
(* SpecInternal                                                            *)
(*           one call of LLMNamer._generate_internal: the requests, the    *)
(*           answers and the sleeps between them.                          *)
(* SpecScroll                                                              *)
(*           the scroll loop of _fetch_vectors against a vector store that *)
(*           answers every request, with any page and any cursor.          *)
(* SpecSamples                                                             *)
(*           the texts a naming prompt is built from.                      *)
(* SpecKeys  upload_visualization, get_visualization_url and               *)
(*           delete_visualization on one object store.                     *)
(***************************************************************************)
EXTENDS Integers, Sequences, FiniteSets, TLC

\* ---------------------------------------------------------------- bounds
MaxMsgs == 1
MaxDeliveries == 2
MaxPoints == 1
MaxClusterId == 0
MaxPublishFailures == 2
\* SpecLoad: the messages in the stream, the NATS_BATCH_SIZE values tried, and
\* the redeliveries the broker makes.
MaxStreamMsgs == 11
MaxBatch == 2
MaxRedelivered == 1
\* SpecLoad: the largest max_ack_pending a consumer made by somebody else has.
MaxExistingWindow == 11
\* SpecMain: the messages the fetch loop is given before the shutdown.
MaxMainMsgs == 2
\* The seconds the clock may advance between the uploads of a run.
MaxClockTicks == 1

\* ------------------------------------------------------ program constants
NATS_STREAM_RETRY_ATTEMPTS == 30
MAX_DELIVER == 3
MAX_ACK_PENDING == 10
ACK_WAIT == 1800
PROCESSING_TIMEOUT_SECS == 3600

Msgs == 1..MaxMsgs
Handlers == 1..MaxDeliveries

\* Optional[T]: None is <<>>, a value v is <<v>>.
None == <<>>
Some(v) == <<v>>
IsNone(o) == o = <<>>

VARIABLES
    body,          \* body[m]: the bytes of stream message m, by what decoding finds
    deliveries,    \* deliveries[m]: how often the broker has delivered m
    acked,         \* acked[m]: the broker has received a positive ack for m
    nextDelivery,  \* the handler task the next fetched message is given to
    pc,            \* pc[h]: where handler task h stands
    hmsg,          \* hmsg[h]: the message task h was created for (0: none yet)
    active_jobs,   \* main.py global active_jobs
    result,        \* result[h]: handle_job's VisualizationTransformResult
    sent,          \* sent[h]: the nc.publish calls of h, in order, each with its outcome
    settles,       \* settles[h]: the msg.ack / msg.nak calls of h, in order, with outcome
    counted,       \* counted[h]: labels of visualization_job_failures_total incremented by h
    pipeline,      \* pipeline[h]: how far process_job of h is, and how it ended
    executor,      \* executor[h]: the default executor's thread working for h
    processed,     \* processed[h]: what process_job has computed, and its return value
    ack_pending,   \* SpecLoad: messages delivered to the consumer and not yet acked
    tasks,         \* SpecLoad: message_handler tasks created and not yet in handle_job
    fetched,       \* SpecLoad: first deliveries so far
    redelivered,   \* SpecLoad: redeliveries so far
    consumer,      \* SpecLoad: how the subscription was made, and the window in force
    main,          \* SpecMain: where main() is
    shutdown_event, \* SpecMain: the flag the signal handler sets
    started,       \* SpecMain: the startup steps done, in order
    stopped,       \* SpecMain: the shutdown steps done, in order
    attempt,       \* SpecMain: the subscription attempt under way
    exit_code,     \* SpecMain: the exit status the process will have
    raised,        \* SpecMain: the step of main() that raised, if any
    drain_elapsed, \* SpecMain: the drain gave up after its max_wait
    settling,      \* SpecMain: handlers awaiting msg.ack() outside handle_job
    labelling,     \* SpecLabels: the arguments of _generate_cluster_labels
    cluster_labels, \* SpecLabels: the dictionary cluster id -> label being built
    requests,      \* requests[h]: the object-store requests of h, in order
    io,            \* SpecLoop: io[h]: the I/O step handler h is at, and whether it waits
    blocking,      \* SpecLoop: the handler whose call holds the event loop's thread
    probes,        \* SpecLoop: health requests received and not yet answered
    rendered,      \* SpecFonts: the HTML the rendering handed to patch_html_fonts
    patched,       \* SpecFonts: what patch_html_fonts returned for it
    job_data,      \* SpecDecode: the JSON object of a message, by its fields
    decoded,        \* SpecDecode: what message_handler's parse made of it
    http,          \* SpecInternal: the requests and waits of one _generate_internal call
    scroll,        \* SpecScroll: the scroll loop of _fetch_vectors_from_qdrant
    sampling,      \* SpecSamples: the texts of a cluster and the prompt made of them
    stored,        \* SpecKeys: an uploaded key and what the readers make of it
    subscribing,   \* SpecMain: the calls of the subscription loop so far
    consecutive_errors, \* SpecFetch: the fetch loop's counter of that name
    errors,        \* SpecFetch: the fetch errors since the counter was last reset
    backoff,       \* SpecFetch: the seconds the fetch loop last slept after an error
    namer          \* SpecLabels: where _generate_cluster_labels is, and the LLM outcomes

vars == <<body, deliveries, acked, nextDelivery, pc, hmsg, active_jobs, result,
          sent, settles, counted, pipeline, executor, processed,
          ack_pending, tasks, fetched, redelivered, consumer,
          main, shutdown_event, started, stopped, attempt, exit_code, raised,
          drain_elapsed, settling, labelling, cluster_labels, namer, requests,
          io, blocking, probes, rendered, patched, job_data, decoded,
          subscribing, consecutive_errors, errors, backoff, http, scroll, sampling, stored>>

\* The functions checked on their own.
units == <<http, scroll, sampling, stored>>

\* The retries of main(): of the subscription and of the fetch.
retry == <<subscribing, consecutive_errors, errors, backoff>>

\* The payload of a message and its parse.
decoding == <<job_data, decoded>>

\* The rendered document and its patched form.
fonts == <<rendered, patched>>

\* The event loop as SpecLoop sees it.
loop == <<io, blocking, probes>>

\* What everything but _generate_cluster_labels leaves alone.
naming == <<labelling, cluster_labels, namer>>

\* What main() and its shutdown add to the state.
life == <<main, shutdown_event, started, stopped, attempt, exit_code, raised,
          drain_elapsed, settling>>

\* What the handler tasks leave alone.
load == <<ack_pending, tasks, fetched, redelivered, consumer>>

\* What the actions outside process_job leave alone.
orch == <<pipeline, executor, processed>>

\* ------------------------------------------------------------ the envelope

\* The fields decoding binds; a job envelope has exactly these attributes.
JobFields ==
    {"job_id", "visualization_transform_id", "visualization_id", "owner_id",
     "embedded_dataset_id", "qdrant_collection_name", "visualization_config",
     "qdrant_config", "llm_config"}

\* The identifiers message m binds when it is a job envelope: every stream
\* message is another job (owner u1, u2, ..; transform 42, 43, ..).
JobOf(m) ==
    [job_id |-> m, visualization_transform_id |-> 41 + m, visualization_id |-> 99 + m,
     owner_id |-> <<"u", m>>, embedded_dataset_id |-> 7]

\* Message bodies, by what each decoding step finds in them: whether the bytes
\* are UTF-8, what JSON value the text is ("invalid": none), and whether the
\* object binds to VisualizationTransformJob.
Bodies ==
    {[utf8 |-> TRUE, json |-> "object", binds |-> TRUE],
     [utf8 |-> TRUE, json |-> "object", binds |-> FALSE],
     [utf8 |-> TRUE, json |-> "array", binds |-> FALSE],
     [utf8 |-> TRUE, json |-> "invalid", binds |-> FALSE],
     [utf8 |-> FALSE, json |-> "invalid", binds |-> FALSE]}

\* The body of a message the producer has not published yet.
NoBody == [utf8 |-> FALSE, json |-> "none", binds |-> FALSE]

\* message_handler's parse: msg.data.decode(), json.loads, then the constructor
\* called with **job_data.  The outcome is "job" or the exception raised.
Decode(b) ==
    IF ~b.utf8 THEN "UnicodeDecodeError"
    ELSE IF b.json = "invalid" THEN "JSONDecodeError"
    ELSE IF b.json # "object" THEN "TypeError"
    ELSE IF ~b.binds THEN "ValidationError"
    ELSE "job"

\* Which except clause of message_handler takes an exception of the parse.
HandlerClause(exc) ==
    IF exc = "ValidationError" THEN "ack_validation"
    ELSE IF exc = "JSONDecodeError" THEN "ack_json"
    ELSE "nak_unexpected"

build_status_subject(owner, embedded_dataset_id, transform_id) ==
    <<"transforms", "visualization", "status", owner, embedded_dataset_id, transform_id>>

\* A faulty variant: the subject names the visualization, not the transform.
StatusSubject_ByVisualization(job) ==
    build_status_subject(job.owner_id, job.embedded_dataset_id, job.visualization_id)

StatusSubject(job) ==
    build_status_subject(job.owner_id, job.embedded_dataset_id,
                         job.visualization_transform_id)

\* VisualizationTransformResult as handle_job first builds it.
NewResult(job) ==
    [job_id |-> job.job_id,
     visualization_transform_id |-> job.visualization_transform_id,
     visualization_id |-> job.visualization_id,
     owner_id |-> job.owner_id,
     status |-> "processing",
     html_s3_key |-> None, point_count |-> None, cluster_count |-> None,
     error_message |-> None, stats_json |-> <<>>]

\* The envelope of a progress update: statsJson = {stage, progress_percent}.
ProgressResult(job, stage, progress_percent) ==
    [NewResult(job) EXCEPT !.stats_json = <<stage, progress_percent>>]

\* The wire form: camel-case aliases, fields that are None left out.
Alias ==
    [job_id |-> "jobId", visualization_transform_id |-> "visualizationTransformId",
     visualization_id |-> "visualizationId", owner_id |-> "ownerId", status |-> "status",
     html_s3_key |-> "htmlS3Key", point_count |-> "pointCount",
     cluster_count |-> "clusterCount", error_message |-> "errorMessage",
     stats_json |-> "statsJson"]

\* Fields that are never None (stats_json defaults to the empty dict).
RequiredFields ==
    {"job_id", "visualization_transform_id", "visualization_id", "owner_id", "status",
     "stats_json"}

model_dump_json_safe(r) ==
    LET kept == {f \in DOMAIN r : f \in RequiredFields \/ ~IsNone(r[f])}
        field(k) == CHOOSE f \in kept : Alias[f] = k
    IN [k \in {Alias[f] : f \in kept} |->
            IF field(k) \in RequiredFields THEN r[field(k)] ELSE r[field(k)][1]]

\* ------------------------------------------------------------ exceptions

\* An exception is its type name and str(e), a sequence of words.
Exc(type, words) == [type |-> type, msg |-> words]

\* f"{type(e).__name__}: {str(e)}"
ErrorDescription(e) == <<e.type, ":">> \o e.msg

\* A faulty variant: the description of a timeout without the word.
TimeoutDescription_NoWord == <<"Processing", "failed">>

\* f"Processing timeout after {PROCESSING_TIMEOUT_SECS}s"
TimeoutDescription == <<"Processing", "timeout", "after", "PROCESSING_TIMEOUT_SECS", "s">>

HasAttr(fields, name) == name \in fields

NoAttribute(name) == Exc("AttributeError", <<"no", "attribute", name>>)

\* What process_job holds: the vectors fetched (their number), the cluster
\* assignment, and the dictionary it returns.
NoData == [vectors |-> None, labels |-> None, returned |-> None]

\* ------------------------------------------------------------------ Init

\* _generate_cluster_labels not called yet.
NoLabelling ==
    [labels |-> <<>>, texts |-> <<>>, llm_provider |-> FALSE, llm_config |-> None,
     llm_batch_size |-> 0]

Init ==
    /\ body = [m \in Msgs |-> NoBody]
    /\ deliveries = [m \in Msgs |-> 0]
    /\ acked = [m \in Msgs |-> FALSE]
    /\ nextDelivery = 1
    /\ pc = [h \in Handlers |-> "idle"]
    /\ hmsg = [h \in Handlers |-> 0]
    /\ active_jobs = 0
    /\ result = [h \in Handlers |-> NewResult(JobOf(0))]
    /\ sent = [h \in Handlers |-> <<>>]
    /\ settles = [h \in Handlers |-> <<>>]
    /\ counted = [h \in Handlers |-> <<>>]
    /\ pipeline = [h \in Handlers |-> [state |-> "none", step |-> 0]]
    /\ executor = [h \in Handlers |-> "idle"]
    /\ processed = [h \in Handlers |-> NoData]
    /\ ack_pending = 0
    /\ tasks = 0
    /\ fetched = 0
    /\ redelivered = 0
    /\ consumer = [how |-> "none", max_ack_pending |-> 0]
    /\ main = "start"
    /\ shutdown_event = FALSE
    /\ started = <<>>
    /\ stopped = <<>>
    /\ attempt = 0
    /\ exit_code = 0
    /\ raised = "none"
    /\ drain_elapsed = FALSE
    /\ settling = 0
    /\ labelling = NoLabelling
    /\ cluster_labels = <<>>
    /\ namer = [pc |-> "idle", batch_start |-> 0, results |-> <<>>, in_flight |-> {}, settled |-> <<>>]
    /\ requests = [h \in Handlers |-> <<>>]
    /\ io = [h \in Handlers |-> [provider |-> "none", step |-> 0, state |-> "idle"]]
    /\ blocking = 0
    /\ probes = 0
    /\ rendered = None
    /\ patched = None
    /\ job_data = None
    /\ decoded = None
    /\ subscribing = [binds |-> 0, creates |-> 0, sleeps |-> 0, calls |-> <<>>, error |-> "none"]
    /\ consecutive_errors = 0
    /\ errors = <<>>
    /\ backoff = 0
    /\ http = [pc |-> "idle", attempt |-> 0, responses |-> <<>>, waits |-> <<>>]
    /\ scroll = [pc |-> "idle", large |-> FALSE, offset |-> None, prev_offset |-> None]
    /\ sampling = None
    /\ stored = [objects |-> {}, uploads |-> {}, last |-> None]

\* ------------------------------------------------------- the fetch loop

Job(h) == JobOf(hmsg[h])

\* A handler of message m that is inside handle_job.
InHandleJob(h) ==
    pc[h] \in {"starting", "process", "pipeline", "upload", "publish_result", "ack", "nak"}

\* The broker hands out m again once ACK_WAIT has passed without an ack (or at
\* once after a nak).  A handler waiting in the pipeline waits at most
\* PROCESSING_TIMEOUT_SECS, so m comes back during its pipeline only if the ack
\* wait is the shorter of the two; the other awaits of a handler have no timeout.
MayRedeliver(m) ==
    \A h \in Handlers :
        (hmsg[h] = m /\ pc[h] = "pipeline") => ACK_WAIT < PROCESSING_TIMEOUT_SECS

\* psub.fetch returns message m and the loop creates a message_handler task for
\* it: a first delivery (in stream order, with whatever body the producer
\* published) or a redelivery.
Fetch(m) ==
    /\ nextDelivery \in Handlers
    /\ ~acked[m]
    /\ deliveries[m] < MAX_DELIVER
    /\ MayRedeliver(m)
    /\ IF deliveries[m] = 0
       THEN /\ \A k \in Msgs : k < m => deliveries[k] > 0
            /\ \E b \in Bodies : body' = [body EXCEPT ![m] = b]
       ELSE UNCHANGED body
    /\ deliveries' = [deliveries EXCEPT ![m] = @ + 1]
    /\ hmsg' = [hmsg EXCEPT ![nextDelivery] = m]
    /\ pc' = [pc EXCEPT ![nextDelivery] = "spawned"]
    /\ nextDelivery' = nextDelivery + 1
    /\ UNCHANGED <<retry, units, decoding, fonts, loop, requests, naming, life, load, acked, active_jobs, result, sent, settles, counted, orch>>

\* ------------------------------------------------------ message_handler

\* The publish calls of h that raised.
PublishFailures(h) == Cardinality({i \in DOMAIN sent[h] : ~sent[h][i].ok})

\* await nc.publish(subject, data): it returns (ok) or raises.  At most
\* MaxPublishFailures publishes of one handler raise.
Publish(h, subject, data, ok) ==
    /\ ok \/ PublishFailures(h) < MaxPublishFailures
    /\ sent' = [sent EXCEPT ![h] = Append(@, [subject |-> subject, data |-> data, ok |-> ok])]

Settle(h, op, ok) ==
    settles' = [settles EXCEPT ![h] = Append(@, [op |-> op, ok |-> ok])]

\* The task starts: the parse, and for a job the synchronous head of handle_job
\* up to its first await (the publish of the starting envelope).
MessageHandler(h) ==
    /\ pc[h] = "spawned"
    /\ LET parsed == Decode(body[hmsg[h]]) IN
       IF parsed = "job"
       THEN /\ active_jobs' = active_jobs + 1
            /\ result' = [result EXCEPT ![h] = NewResult(Job(h))]
            /\ pc' = [pc EXCEPT ![h] = "starting"]
       ELSE /\ pc' = [pc EXCEPT ![h] = HandlerClause(parsed)]
            /\ UNCHANGED <<active_jobs, result>>
    /\ UNCHANGED <<retry, units, decoding, fonts, loop, requests, naming, life, load, body, deliveries, acked, nextDelivery, hmsg, sent, settles, counted, orch>>

\* except ValidationError / except json.JSONDecodeError: ack, then count.  An
\* ack that raises leaves the except clause with the exception: the task dies.
AckInvalid(h, ok) ==
    /\ pc[h] \in {"ack_validation", "ack_json"}
    /\ Settle(h, "ack", ok)
    /\ IF ok
       THEN /\ acked' = [acked EXCEPT ![hmsg[h]] = TRUE]
            /\ counted' = [counted EXCEPT ![h] =
                   Append(@, IF pc[h] = "ack_validation" THEN "validation_error"
                             ELSE "json_decode_error")]
            /\ pc' = [pc EXCEPT ![h] = "done"]
       ELSE /\ pc' = [pc EXCEPT ![h] = "crashed"]
            /\ UNCHANGED <<acked, counted>>
    /\ UNCHANGED <<retry, units, decoding, fonts, loop, requests, naming, life, load, body, deliveries, nextDelivery, hmsg, active_jobs, result, sent, orch>>

\* except Exception: nak, then count under unexpected_error.
NakUnexpected(h, ok) ==
    /\ pc[h] = "nak_unexpected"
    /\ Settle(h, "nak", ok)
    /\ IF ok
       THEN /\ counted' = [counted EXCEPT ![h] = Append(@, "unexpected_error")]
            /\ pc' = [pc EXCEPT ![h] = "done"]
       ELSE /\ pc' = [pc EXCEPT ![h] = "crashed"]
            /\ UNCHANGED counted
    /\ UNCHANGED <<retry, units, decoding, fonts, loop, requests, naming, life, load, body, deliveries, acked, nextDelivery, hmsg, active_jobs, result, sent, orch>>

\* ------------------------------------------------------------ handle_job

\* A faulty variant: handle_job goes to the pipeline without the starting envelope.
PublishStarting_Skipped(h, ok) ==
    /\ pc[h] = "starting"
    /\ pc' = [pc EXCEPT ![h] = "process"]
    /\ UNCHANGED <<retry, units, decoding, fonts, loop, requests, naming, life, load, body, deliveries, acked, nextDelivery, hmsg, active_jobs, result,
                   sent, settles, counted, orch>>

\* The starting envelope; a publish that raises is logged and swallowed.
PublishStarting(h, ok) ==
    /\ pc[h] = "starting"
    /\ Publish(h, StatusSubject(Job(h)),
               model_dump_json_safe(ProgressResult(Job(h), "starting", 0)), ok)
    /\ pc' = [pc EXCEPT ![h] = "process"]
    /\ UNCHANGED <<retry, units, decoding, fonts, loop, requests, naming, life, load, body, deliveries, acked, nextDelivery, hmsg, active_jobs, result,
                   settles, counted, orch>>

\* except asyncio.TimeoutError
TimeoutResult(r) ==
    [r EXCEPT !.status = "failed", !.error_message = Some(TimeoutDescription)]

\* A faulty variant: the failed result carries a point count.
FailedResult_WithCounts(r, e) ==
    [r EXCEPT !.status = "failed", !.error_message = Some(ErrorDescription(e)),
              !.point_count = Some(0)]

\* except Exception as e
FailedResult(r, e) ==
    [r EXCEPT !.status = "failed", !.error_message = Some(ErrorDescription(e))]

\* The label of visualization_job_failures_total a pipeline failure counts under.
FailureLabel(e) == e.type

\* The pipeline raised e: the except Exception clause of handle_job.
PipelineFails(h, e) ==
    /\ result' = [result EXCEPT ![h] = FailedResult(@, e)]
    /\ counted' = [counted EXCEPT ![h] = Append(@, FailureLabel(e))]
    /\ pipeline' = [pipeline EXCEPT ![h].state = "raised"]
    /\ pc' = [pc EXCEPT ![h] = "publish_result"]

\* process_job is entered: its first step is the first progress callback.
EnterPipeline(h) ==
    /\ pipeline' = [pipeline EXCEPT ![h] = [state |-> "running", step |-> 1]]
    /\ pc' = [pc EXCEPT ![h] = "pipeline"]
    /\ UNCHANGED <<result, counted>>

\* process_visualization_job builds the processor from
\* job.vector_database_config.connection_url before anything else.
ProcessVisualizationJob(h) ==
    /\ pc[h] = "process"
    /\ IF HasAttr(JobFields, "vector_database_config")
       THEN EnterPipeline(h)
       ELSE PipelineFails(h, NoAttribute("vector_database_config"))
    /\ UNCHANGED <<retry, units, decoding, fonts, loop, requests, naming, life, load, body, deliveries, acked, nextDelivery, hmsg, active_jobs, sent, settles,
                   executor, processed>>

\* ----------------------------------- VisualizationProcessor.process_job

\* wait_for runs process_job with the processor already built.
ProcessJob(h) ==
    /\ pc[h] = "process"
    /\ EnterPipeline(h)
    /\ UNCHANGED <<retry, units, decoding, fonts, loop, requests, naming, life, load, body, deliveries, acked, nextDelivery, hmsg, active_jobs, sent, settles,
                   executor, processed>>

Progress(stage, percent) == [kind |-> "progress", stage |-> stage, percent |-> percent]
Await(stage) == [kind |-> "await", stage |-> stage, percent |-> 0]
Offload(stage) == [kind |-> "executor", stage |-> stage, percent |-> 0]

\* A faulty variant: the callbacks around the naming stage report 85 before and 72 after.
PipelineSteps_OutOfOrder ==
    <<Progress("fetching_vectors", 5), Await("fetching_vectors"),
      Progress("fetching_vectors", 20),
      Progress("applying_umap", 25), Offload("applying_umap"),
      Progress("applying_umap", 50),
      Progress("clustering", 55), Offload("clustering"),
      Progress("clustering", 70),
      Progress("naming_clusters", 85), Await("naming_clusters"),
      Progress("naming_clusters", 72),
      Progress("generating_html", 88), Offload("generating_html"),
      Progress("generating_html", 100)>>

\* The awaits of process_job in program order: the progress callbacks, the two
\* stages awaited on the event loop and the three run in the executor.
PipelineSteps ==
    <<Progress("fetching_vectors", 5), Await("fetching_vectors"),
      Progress("fetching_vectors", 20),
      Progress("applying_umap", 25), Offload("applying_umap"),
      Progress("applying_umap", 50),
      Progress("clustering", 55), Offload("clustering"),
      Progress("clustering", 70),
      Progress("naming_clusters", 72), Await("naming_clusters"),
      Progress("naming_clusters", 85),
      Progress("generating_html", 88), Offload("generating_html"),
      Progress("generating_html", 100)>>

Running(h) == pc[h] = "pipeline" /\ pipeline[h].state = "running"
CurrentStep(h) == PipelineSteps[pipeline[h].step]

\* What a stage may raise.  A TimeoutError raised by a stage is the same class
\* as the one wait_for raises.
StageErrors == {Exc("RuntimeError", <<"stage", "failed">>), Exc("TimeoutError", <<>>)}

\* The clause of handle_job that takes exception e of the pipeline.
ExceptClause(e) == IF e.type = "TimeoutError" THEN "timeout" ELSE "exception"

\* except asyncio.TimeoutError: the failed result and the metrics label.
TimeoutClause(h) ==
    /\ result' = [result EXCEPT ![h] = TimeoutResult(@)]
    /\ counted' = [counted EXCEPT ![h] = Append(@, "timeout")]
    /\ pc' = [pc EXCEPT ![h] = "publish_result"]

\* A stage raised e inside wait_for.
StageRaises(h, e) ==
    IF ExceptClause(e) = "timeout"
    THEN /\ TimeoutClause(h)
         /\ pipeline' = [pipeline EXCEPT ![h].state = "raised"]
    ELSE PipelineFails(h, e)

\* unique_clusters = len(set(labels[labels >= 0]))
ClusterCount(labels) == Cardinality({labels[i] : i \in {j \in DOMAIN labels : labels[j] >= 0}})

\* The dictionary process_job returns.
ProcessedResult(d) ==
    [html |-> "html", point_count |-> d.vectors[1], cluster_count |-> ClusterCount(d.labels[1])]

\* The return of process_job after its last callback; wait_for hands it to
\* handle_job, which goes on to the upload.
Advance(h) ==
    IF pipeline[h].step < Len(PipelineSteps)
    THEN /\ pipeline' = [pipeline EXCEPT ![h].step = @ + 1]
         /\ pc' = pc
         /\ processed' = processed
    ELSE /\ pipeline' = [pipeline EXCEPT ![h].state = "returned"]
         /\ pc' = [pc EXCEPT ![h] = "upload"]
         /\ processed' = [processed EXCEPT ![h].returned = Some(ProcessedResult(processed[h]))]

\* A faulty variant: a progress publish that raises fails the stage.
SendProgress_Raising(h, ok) ==
    /\ Running(h)
    /\ CurrentStep(h).kind = "progress"
    /\ Publish(h, StatusSubject(Job(h)),
               model_dump_json_safe(
                   ProgressResult(Job(h), CurrentStep(h).stage, CurrentStep(h).percent)), ok)
    /\ IF ok THEN Advance(h)
       ELSE /\ PipelineFails(h, Exc("ConnectionClosedError", <<"publish", "failed">>))
            /\ UNCHANGED processed
    /\ UNCHANGED <<retry, units, decoding, fonts, loop, requests, naming, life, load, body, deliveries, acked, nextDelivery, hmsg, active_jobs,
                   settles, executor>>

\* send_progress: the publish of a processing envelope; a publish that raises is
\* logged and swallowed.
SendProgress(h, ok) ==
    /\ Running(h)
    /\ CurrentStep(h).kind = "progress"
    /\ Publish(h, StatusSubject(Job(h)),
               model_dump_json_safe(
                   ProgressResult(Job(h), CurrentStep(h).stage, CurrentStep(h).percent)), ok)
    /\ Advance(h)
    /\ UNCHANGED <<retry, units, decoding, fonts, loop, requests, naming, life, load, body, deliveries, acked, nextDelivery, hmsg, active_jobs, result,
                   settles, counted, executor>>

\* _fetch_vectors_from_qdrant returns n vectors, or raises.
FetchVectors(h) ==
    /\ Running(h)
    /\ CurrentStep(h) = Await("fetching_vectors")
    /\ \/ /\ \E n \in 0..MaxPoints :
                processed' = [processed EXCEPT ![h].vectors = Some(n)]
          /\ pipeline' = [pipeline EXCEPT ![h].step = @ + 1]
          /\ UNCHANGED <<pc, result, counted>>
       \/ /\ \E e \in StageErrors : StageRaises(h, e)
          /\ UNCHANGED processed
    /\ UNCHANGED <<retry, units, decoding, fonts, loop, requests, naming, life, load, body, deliveries, acked, nextDelivery, hmsg, active_jobs, sent, settles,
                   executor>>

\* _generate_cluster_labels returns the label map, or raises.
NameClusters(h) ==
    /\ Running(h)
    /\ CurrentStep(h) = Await("naming_clusters")
    /\ \/ /\ pipeline' = [pipeline EXCEPT ![h].step = @ + 1]
          /\ UNCHANGED <<pc, result, counted>>
       \/ \E e \in StageErrors : StageRaises(h, e)
    /\ UNCHANGED <<retry, units, decoding, fonts, loop, requests, naming, life, load, body, deliveries, acked, nextDelivery, hmsg, active_jobs, sent, settles,
                   executor, processed>>

\* loop.run_in_executor: a thread of the default executor starts the stage.
Submit(h) ==
    /\ Running(h)
    /\ CurrentStep(h).kind = "executor"
    /\ executor[h] = "idle"
    /\ executor' = [executor EXCEPT ![h] = CurrentStep(h).stage]
    /\ UNCHANGED <<retry, units, decoding, fonts, loop, requests, naming, life, load, body, deliveries, acked, nextDelivery, pc, hmsg, active_jobs, result,
                   sent, settles, counted, pipeline, processed>>

\* The cluster assignments HDBSCAN may return for n points: -1 is noise.
Labelings(n) == [1..n -> -1..MaxClusterId]

\* The thread finishes its stage while process_job awaits it: the stage's value
\* (for clustering the labels) or its exception goes to process_job.
Complete(h) ==
    /\ Running(h)
    /\ CurrentStep(h).kind = "executor"
    /\ executor[h] = CurrentStep(h).stage
    /\ executor' = [executor EXCEPT ![h] = "idle"]
    /\ \/ /\ IF CurrentStep(h).stage = "clustering"
             THEN \E l \in Labelings(processed[h].vectors[1]) :
                    processed' = [processed EXCEPT ![h].labels = Some(l)]
             ELSE UNCHANGED processed
          /\ pipeline' = [pipeline EXCEPT ![h].step = @ + 1]
          /\ UNCHANGED <<pc, result, counted>>
       \/ /\ \E e \in StageErrors : StageRaises(h, e)
          /\ UNCHANGED processed
    /\ UNCHANGED <<retry, units, decoding, fonts, loop, requests, naming, life, load, body, deliveries, acked, nextDelivery, hmsg, active_jobs, sent, settles>>

\* The thread finishes a stage nobody awaits any more (the await was cancelled):
\* a running thread cannot be cancelled, its result is dropped.
Abandoned(h) ==
    /\ executor[h] # "idle"
    /\ ~Running(h)
    /\ executor' = [executor EXCEPT ![h] = "idle"]
    /\ UNCHANGED <<retry, units, decoding, fonts, loop, requests, naming, life, load, body, deliveries, acked, nextDelivery, pc, hmsg, active_jobs, result,
                   sent, settles, counted, pipeline, processed>>

\* wait_for: the budget PROCESSING_TIMEOUT_SECS runs out while process_job is at
\* one of its awaits; the await is cancelled and TimeoutError raised in handle_job.
BudgetTimeout(h) ==
    /\ Running(h)
    /\ TimeoutClause(h)
    /\ pipeline' = [pipeline EXCEPT ![h].state = "cancelled"]
    /\ UNCHANGED <<retry, units, decoding, fonts, loop, requests, naming, life, load, body, deliveries, acked, nextDelivery, hmsg, active_jobs, sent, settles,
                   executor, processed>>

\* datetime.now(timezone.utc) at an upload: the instant the worker's first
\* upload may see, or one of the MaxClockTicks seconds after it; and
\* strftime("%Y-%m-%dT%H:%M:%SZ").
UtcNow == [year |-> 2026, month |-> 1, day |-> 2, hour |-> 3, minute |-> 4, second |-> 5]
Instants == {[UtcNow EXCEPT !.second = @ + t] : t \in 0..MaxClockTicks}
strftime(now) ==
    <<now.year, "-", now.month, "-", now.day, "T",
      now.hour, ":", now.minute, ":", now.second, "Z">>

\* bucket_name = f"visualizations-{transform_id}"
bucket_name(transform_id) == <<"visualizations-", transform_id>>

\* s3_path = f"visualization-{timestamp_str}.html"
s3_path(timestamp_str) == <<"visualization-", timestamp_str, ".html">>

\* What the object store answers to the requests of one upload: head_bucket
\* with 200, 404 or 403, create_bucket and put_object with success or an error.
StoreAnswers == [head : {200, 404, 403}, create : BOOLEAN, put : BOOLEAN]

\* _ensure_bucket_exists: head_bucket, and create_bucket when the answer is 404;
\* another answer, or a failed creation, is raised.
ensure_bucket_exists(bucket, now, answers) ==
    LET head == [op |-> "head_bucket", bucket |-> bucket, key |-> None, at |-> now]
        create == [op |-> "create_bucket", bucket |-> bucket, key |-> None, at |-> now]
    IN  IF answers.head = 200 THEN [requests |-> <<head>>, raised |-> FALSE]
        ELSE IF answers.head = 404
             THEN [requests |-> <<head, create>>, raised |-> ~answers.create]
             ELSE [requests |-> <<head>>, raised |-> TRUE]

UploadErrors == {Exc("ClientError", <<"upload", "failed">>)}

\* S3Storage.upload_visualization: the requests it makes, and the key it
\* returns unless a request raised.  It has no await: the requests are made
\* in one step of the event loop.
upload_visualization(owner, transform_id, now, answers) ==
    LET bucket == bucket_name(transform_id)
        path == s3_path(strftime(now))
        ensured == ensure_bucket_exists(bucket, now, answers)
        put == [op |-> "put_object", bucket |-> bucket, key |-> Some(path), at |-> now]
    IN  IF ensured.raised
        THEN [requests |-> ensured.requests, raised |-> TRUE, key |-> None]
        ELSE [requests |-> Append(ensured.requests, put),
              raised |-> ~answers.put,
              key |-> IF answers.put THEN Some(path) ELSE None]

\* A faulty variant: the success result without the storage key.
SuccessResult_NoKey(r, s3_key, processed_result) ==
    [r EXCEPT !.status = "success",
              !.point_count = Some(processed_result.point_count),
              !.cluster_count = Some(processed_result.cluster_count),
              !.stats_json = <<"unique_clusters", processed_result.cluster_count>>]

\* The result of a job whose pipeline and upload succeeded.
SuccessResult(r, s3_key, processed_result) ==
    [r EXCEPT !.status = "success",
              !.html_s3_key = Some(s3_key),
              !.point_count = Some(processed_result.point_count),
              !.cluster_count = Some(processed_result.cluster_count),
              !.stats_json = <<"unique_clusters", processed_result.cluster_count>>]

\* The worker's clock has shown an instant later than now: an earlier upload
\* was made then.
ClockBefore(now) ==
    \E g \in Handlers : \E i \in DOMAIN requests[g] : requests[g][i].at.second > now.second

\* The upload after a pipeline that returned, and the update of the result.
Upload(h) ==
    /\ pc[h] = "upload"
    /\ \E answers \in StoreAnswers, now \in Instants :
         LET up == upload_visualization(Job(h).owner_id, Job(h).visualization_transform_id,
                                        now, answers)
         IN  /\ ~ClockBefore(now)
             /\ requests' = [requests EXCEPT ![h] = @ \o up.requests]
             /\ IF ~up.raised
                THEN /\ result' = [result EXCEPT ![h] =
                            SuccessResult(@, up.key[1], processed[h].returned[1])]
                     /\ pipeline' = [pipeline EXCEPT ![h].state = "uploaded"]
                     /\ pc' = [pc EXCEPT ![h] = "publish_result"]
                     /\ UNCHANGED counted
                ELSE \E e \in UploadErrors :
                     /\ result' = [result EXCEPT ![h] = FailedResult(@, e)]
                     /\ counted' = [counted EXCEPT ![h] = Append(@, FailureLabel(e))]
                     /\ pipeline' = [pipeline EXCEPT ![h].state = "upload_failed"]
                     /\ pc' = [pc EXCEPT ![h] = "publish_result"]
    /\ UNCHANGED <<retry, units, decoding, fonts, loop, naming, life, load, body, deliveries, acked, nextDelivery, hmsg, active_jobs, sent, settles,
                   executor, processed>>

\* A faulty variant: the ack follows the terminal publish whatever it did.
AfterPublish_AlwaysAck(ok) == "ack"

\* What follows the publish of the terminal envelope: the ack, or on a publish
\* that raised the nak of the except clause.
AfterPublish(ok) == IF ok THEN "ack" ELSE "nak"

\* A faulty variant: handle_job settles the message without publishing the result.
PublishResult_Unpublished(h, ok) ==
    /\ pc[h] = "publish_result"
    /\ pc' = [pc EXCEPT ![h] = IF ok THEN "ack" ELSE "nak"]
    /\ UNCHANGED <<retry, units, decoding, fonts, loop, requests, naming, life, load, body, deliveries, acked, nextDelivery, hmsg, active_jobs, result,
                   sent, settles, counted, orch>>

\* The publish of the terminal envelope, inside the try block of handle_job.
PublishResult(h, ok) ==
    /\ pc[h] = "publish_result"
    /\ Publish(h, StatusSubject(Job(h)), model_dump_json_safe(result[h]), ok)
    /\ pc' = [pc EXCEPT ![h] = AfterPublish(ok)]
    /\ UNCHANGED <<retry, units, decoding, fonts, loop, requests, naming, life, load, body, deliveries, acked, nextDelivery, hmsg, active_jobs, result,
                   settles, counted, orch>>

\* await msg.ack(); an ack that raises lands in the same except clause as a
\* publish that raised.  The finally clause runs when the try block is left.
Ack(h, ok) ==
    /\ pc[h] = "ack"
    /\ Settle(h, "ack", ok)
    /\ IF ok
       THEN /\ acked' = [acked EXCEPT ![hmsg[h]] = TRUE]
            /\ active_jobs' = active_jobs - 1
            /\ pc' = [pc EXCEPT ![h] = "done"]
       ELSE /\ pc' = [pc EXCEPT ![h] = "nak"]
            /\ UNCHANGED <<acked, active_jobs>>
    /\ UNCHANGED <<retry, units, decoding, fonts, loop, requests, naming, life, load, body, deliveries, nextDelivery, hmsg, result, sent, counted, orch>>

\* await msg.nak() in handle_job's except clause; if it raises, finally runs and
\* the exception reaches message_handler's except Exception.
Nak(h, ok) ==
    /\ pc[h] = "nak"
    /\ Settle(h, "nak", ok)
    /\ active_jobs' = active_jobs - 1
    /\ pc' = [pc EXCEPT ![h] = IF ok THEN "done" ELSE "nak_unexpected"]
    /\ UNCHANGED <<retry, units, decoding, fonts, loop, requests, naming, life, load, body, deliveries, acked, nextDelivery, hmsg, result, sent, counted, orch>>

\* The steps of a handler task outside the pipeline.
Settling(h) ==
    \/ MessageHandler(h)
    \/ \E ok \in BOOLEAN :
        \/ AckInvalid(h, ok)
        \/ NakUnexpected(h, ok)
        \/ PublishStarting(h, ok)
        \/ PublishResult(h, ok)
        \/ Ack(h, ok)
        \/ Nak(h, ok)

HandlerStep(h) ==
    \/ Settling(h)
    \/ ProcessVisualizationJob(h)

Next ==
    \/ \E m \in Msgs : Fetch(m)
    \/ \E h \in Handlers : HandlerStep(h)

Spec == Init /\ [][Next]_vars

\* One delivery, handled with process_job entered.
OrchStep(h) ==
    \/ Settling(h)
    \/ ProcessJob(h)
    \/ \E ok \in BOOLEAN : SendProgress(h, ok)
    \/ FetchVectors(h)
    \/ NameClusters(h)
    \/ Submit(h)
    \/ Complete(h)
    \/ Abandoned(h)
    \/ BudgetTimeout(h)
    \/ Upload(h)

NextOrch ==
    \/ \E m \in Msgs : nextDelivery = 1 /\ Fetch(m)
    \/ \E h \in Handlers : OrchStep(h)

SpecOrch == Init /\ [][NextOrch]_vars

\* A redelivery while the earlier handler of the message is still awaiting its
\* pipeline; the broker calls of the handlers all return.
LongAwait(m) ==
    deliveries[m] > 0 => \E h \in Handlers : hmsg[h] = m /\ pc[h] = "pipeline"

RedeliveryStep(h) ==
    \/ MessageHandler(h)
    \/ PublishStarting(h, TRUE)
    \/ ProcessJob(h)
    \/ SendProgress(h, TRUE)
    \/ FetchVectors(h)
    \/ NameClusters(h)
    \/ Submit(h)
    \/ Complete(h)
    \/ Abandoned(h)
    \/ BudgetTimeout(h)
    \/ Upload(h)
    \/ PublishResult(h, TRUE)
    \/ Ack(h, TRUE)

NextRedelivery ==
    \/ \E m \in Msgs : LongAwait(m) /\ Fetch(m)
    \/ \E h \in Handlers : RedeliveryStep(h)

SpecRedelivery == Init /\ [][NextRedelivery]_vars

\* ------------------------------------------------------- cancellation

\* main() returns: its finally clause has waited for active_jobs = 0 for at
\* most max_wait = 300 s, less than the PROCESSING_TIMEOUT_SECS a handler may
\* spend in its pipeline, and has closed the connection. asyncio.run then
\* cancels every task that is not done.
MainReturns ==
    /\ main # "exited"
    /\ main' = "exited"
    /\ UNCHANGED <<retry, units, decoding, fonts, loop, requests, naming, load, body, deliveries, acked, nextDelivery, pc, hmsg, result, sent,
                   settles, counted, orch, active_jobs, shutdown_event, started,
                   stopped, attempt, exit_code, raised, drain_elapsed, settling>>

\* The awaits of handle_job inside the try block that has the finally clause.
UnderFinally == {"publish_result", "ack", "nak"}

\* The task of h gets CancelledError at the await it is at. No except
\* Exception clause takes it (it is a BaseException); it leaves handle_job
\* through the finally clause, active_jobs -= 1, only from the last try block.
Cancel(h) ==
    /\ main = "exited"
    /\ pc[h] \in {"spawned", "starting", "process", "pipeline", "publish_result", "ack", "nak",
                  "ack_validation", "ack_json", "nak_unexpected"}
    /\ pc' = [pc EXCEPT ![h] = "cancelled"]
    /\ active_jobs' = IF pc[h] \in UnderFinally THEN active_jobs - 1 ELSE active_jobs
    /\ UNCHANGED <<retry, units, decoding, fonts, loop, requests, naming, life, load, body, deliveries, acked, nextDelivery, hmsg, result, sent,
                   settles, counted, orch>>

\* One delivery handled while main() may return, and the cancellation after.
NextCancel ==
    \/ \E m \in Msgs : main # "exited" /\ nextDelivery = 1 /\ Fetch(m)
    \/ \E h \in Handlers : main # "exited" /\ OrchStep(h)
    \/ MainReturns
    \/ \E h \in Handlers : Cancel(h)

SpecCancel == Init /\ [][NextCancel]_vars

\* ------------------------------------------- the consumer under load

\* The handlers counted, not told apart: the consumer's window of unacked
\* messages, the tasks the fetch loop has created, and active_jobs.

\* The subscription: pull_subscribe_bind to the durable consumer if it exists,
\* with whatever configuration its creator gave it; otherwise pull_subscribe
\* creates it with max_ack_pending = MAX_ACK_PENDING.
Subscribe ==
    /\ consumer.how = "none"
    /\ \/ \E w \in 1..MaxExistingWindow :
             consumer' = [how |-> "bound", max_ack_pending |-> w]
       \/ consumer' = [how |-> "created", max_ack_pending |-> MAX_ACK_PENDING]
    /\ UNCHANGED <<retry, units, decoding, fonts, loop, requests, naming, life, ack_pending, tasks, fetched, redelivered, body, deliveries, acked,
                   nextDelivery, pc, hmsg, active_jobs, result, sent, settles, counted, orch>>

\* psub.fetch(batch) returns k messages delivered for the first time, as far as
\* the consumer's max_ack_pending lets the broker deliver; the loop creates one
\* task for each.
FetchBatch(k) ==
    /\ consumer.how # "none"
    /\ fetched + k <= MaxStreamMsgs
    /\ ack_pending + k <= consumer.max_ack_pending
    /\ fetched' = fetched + k
    /\ ack_pending' = ack_pending + k
    /\ tasks' = tasks + k
    /\ UNCHANGED <<retry, units, decoding, fonts, loop, requests, naming, life, redelivered, consumer, body, deliveries, acked, nextDelivery, pc, hmsg, active_jobs,
                   result, sent, settles, counted, orch>>

\* The broker delivers again a message already counted in the window: one whose
\* handler has not acked within ACK_WAIT (the handler may wait for its pipeline
\* for PROCESSING_TIMEOUT_SECS), or one that has no handler left (nak).
Redeliver ==
    /\ ack_pending > 0
    /\ redelivered < MaxRedelivered
    /\ redelivered < (MAX_DELIVER - 1) * fetched
    /\ ACK_WAIT < PROCESSING_TIMEOUT_SECS \/ ack_pending > tasks + active_jobs
    /\ redelivered' = redelivered + 1
    /\ tasks' = tasks + 1
    /\ UNCHANGED <<retry, units, decoding, fonts, loop, requests, naming, life, ack_pending, fetched, consumer, body, deliveries, acked, nextDelivery, pc, hmsg,
                   active_jobs, result, sent, settles, counted, orch>>

\* A task starts and enters handle_job: active_jobs += 1.
EnterHandleJob ==
    /\ tasks > 0
    /\ tasks' = tasks - 1
    /\ active_jobs' = active_jobs + 1
    /\ UNCHANGED <<retry, units, decoding, fonts, loop, requests, naming, life, ack_pending, fetched, redelivered, consumer, body, deliveries, acked, nextDelivery,
                   pc, hmsg, result, sent, settles, counted, orch>>

\* A handler leaves handle_job (finally: active_jobs -= 1), its message settled
\* by its ack or left in the window (nak, or a message acked before).
LeaveHandleJob(settled) ==
    /\ active_jobs > 0
    /\ active_jobs' = active_jobs - 1
    /\ IF settled
       THEN ack_pending > 0 /\ ack_pending' = ack_pending - 1
       ELSE UNCHANGED ack_pending
    /\ UNCHANGED <<retry, units, decoding, fonts, loop, requests, naming, life, tasks, fetched, redelivered, consumer, body, deliveries, acked, nextDelivery, pc, hmsg,
                   result, sent, settles, counted, orch>>

NextLoad ==
    \/ Subscribe
    \/ \E k \in 1..MaxBatch : FetchBatch(k)
    \/ Redeliver
    \/ EnterHandleJob
    \/ \E settled \in BOOLEAN : LeaveHandleJob(settled)

SpecLoad == Init /\ [][NextLoad]_vars

\* ------------------------------------------------------------- main()

\* What the steps of main() leave alone.
jobs == <<body, deliveries, acked, nextDelivery, pc, hmsg, result, sent, settles, counted,
          orch, redelivered>>

Done(log, step) == \E i \in DOMAIN log : log[i] = step

\* initialize(): S3Storage(), then LLMProvider(), outside any try block; main()
\* has installed the signal handlers before.  A constructor that raises ends the
\* process with the uncaught exception.
Initialize(failing) ==
    /\ main = "start"
    /\ started' = IF failing = "s3_storage" THEN started
                  ELSE IF failing = "llm_provider" THEN Append(started, "s3_storage")
                  ELSE started \o <<"s3_storage", "llm_provider">>
    /\ IF failing = "none"
       THEN main' = "health" /\ UNCHANGED <<exit_code, raised>>
       ELSE main' = "exited" /\ exit_code' = 1 /\ raised' = "initialize"
    /\ UNCHANGED <<retry, units, decoding, fonts, loop, requests, naming, jobs, ack_pending, tasks, fetched, consumer, active_jobs, shutdown_event,
                   stopped, attempt, drain_elapsed, settling>>

\* start_health_check_server(); a failure is logged and main() goes on without.
StartHealth(ok) ==
    /\ main = "health"
    /\ started' = IF ok THEN Append(started, "health") ELSE started
    /\ main' = "connect"
    /\ UNCHANGED <<retry, units, decoding, fonts, loop, requests, naming, jobs, ack_pending, tasks, fetched, consumer, active_jobs, shutdown_event,
                   stopped, attempt, exit_code, raised, drain_elapsed, settling>>

\* A faulty variant: the except clause leaves the exit status alone.
Fatal_ExitZero(step) ==
    /\ exit_code' = exit_code
    /\ raised' = step
    /\ main' = "finally"

\* except Exception in main(): sys.exit(1); the finally clause runs first.
Fatal(step) ==
    /\ exit_code' = 1
    /\ raised' = step
    /\ main' = "finally"

\* nc = await nats.connect(NATS_URL)
Connect(ok) ==
    /\ main = "connect"
    /\ IF ok
       THEN /\ started' = Append(started, "nats")
            /\ main' = "subscribe"
            /\ attempt' = 1
            /\ UNCHANGED <<exit_code, raised>>
       ELSE /\ Fatal("connect")
            /\ UNCHANGED <<started, attempt>>
    /\ UNCHANGED <<retry, units, decoding, fonts, loop, requests, naming, jobs, ack_pending, tasks, fetched, consumer, active_jobs, shutdown_event,
                   stopped, drain_elapsed, settling>>

\* A faulty variant: the loop sleeps after its last attempt as well.
AttemptCalls_SleepAlways(bind, create, n) ==
    IF bind THEN <<"bind">>
    ELSE IF create = "ok" THEN <<"bind", "create">>
    ELSE <<"bind", "create", "sleep">>

\* The calls of attempt n of the subscription loop: pull_subscribe_bind; when
\* it raises, pull_subscribe; when that raises too and attempts are left,
\* asyncio.sleep(NATS_STREAM_RETRY_DELAY).
AttemptCalls(bind, create, n) ==
    IF bind THEN <<"bind">>
    ELSE IF create = "ok" THEN <<"bind", "create">>
    ELSE IF n < NATS_STREAM_RETRY_ATTEMPTS THEN <<"bind", "create", "sleep">>
    ELSE <<"bind", "create">>

Count(calls, call) == Cardinality({i \in DOMAIN calls : calls[i] = call})

\* What pull_subscribe may raise: the stream does not exist yet, or an error
\* that no retry cures (a consumer configuration the server rejects, a missing
\* permission).
CreateErrors == {"stream_not_found", "permanent"}

\* One attempt of the subscription loop: bind, else create, else sleep and try
\* again, up to NATS_STREAM_RETRY_ATTEMPTS attempts; then the fetch loop.
\* bind tells whether pull_subscribe_bind returns, create what pull_subscribe
\* does when it is called.
SubscribeAttempt(bind, create) ==
    LET outcome == IF bind THEN "bound" ELSE IF create = "ok" THEN "created" ELSE "failed"
        calls == AttemptCalls(bind, create, attempt)
    IN
    /\ main = "subscribe"
    /\ subscribing' =
         [binds |-> subscribing.binds + Count(calls, "bind"),
          creates |-> subscribing.creates + Count(calls, "create"),
          sleeps |-> subscribing.sleeps + Count(calls, "sleep"),
          calls |-> calls,
          error |-> IF outcome = "failed" THEN create ELSE subscribing.error]
    /\ IF outcome = "failed"
       THEN /\ IF attempt < NATS_STREAM_RETRY_ATTEMPTS
               THEN /\ attempt' = attempt + 1
                    /\ UNCHANGED <<main, exit_code, raised>>
               ELSE /\ Fatal("subscribe")
                    /\ UNCHANGED attempt
            /\ UNCHANGED <<started, consumer>>
       ELSE /\ consumer' = [how |-> outcome, max_ack_pending |-> MAX_ACK_PENDING]
            /\ started' = started \o <<"consumer", "fetch_loop">>
            /\ main' = "loop"
            /\ UNCHANGED <<attempt, exit_code, raised>>
    /\ UNCHANGED <<consecutive_errors, errors, backoff, units, decoding, fonts, loop, requests, naming, jobs, ack_pending, tasks, fetched, active_jobs, shutdown_event, stopped,
                   drain_elapsed, settling>>

\* handle_signal: SIGTERM or SIGINT sets the flag.
Signal ==
    /\ main # "exited"
    /\ ~shutdown_event
    /\ shutdown_event' = TRUE
    /\ UNCHANGED <<retry, units, decoding, fonts, loop, requests, naming, jobs, load, active_jobs, main, started, stopped, attempt, exit_code, raised,
                   drain_elapsed, settling>>

\* while not shutdown_event.is_set(): the next fetch is issued, or the loop ends.
LoopCheck ==
    /\ main = "loop"
    /\ main' = IF shutdown_event THEN "finally" ELSE "fetching"
    /\ UNCHANGED <<retry, units, decoding, fonts, loop, requests, naming, jobs, load, active_jobs, shutdown_event, started, stopped, attempt,
                   exit_code, raised, drain_elapsed, settling>>

Max(a, b) == IF a >= b THEN a ELSE b
Min(a, b) == IF a <= b THEN a ELSE b

\* psub.fetch returns k messages and the loop zeroes its error counter and
\* creates tasks for the first j of them: all, unless the flag is found set.
\* (SpecMain takes a fetch that raised as a fetch of no message.)
FetchReturns(k, j) ==
    /\ main = "fetching"
    /\ fetched + k <= MaxMainMsgs
    /\ j <= k
    /\ shutdown_event => j = 0
    /\ shutdown_event' = (shutdown_event \/ j < k)
    /\ fetched' = fetched + k
    /\ ack_pending' = ack_pending + k
    /\ tasks' = tasks + j
    /\ main' = "loop"
    /\ consecutive_errors' = 0
    /\ errors' = <<>>
    /\ backoff' = 0
    /\ UNCHANGED <<subscribing, units, decoding, fonts, loop, requests, naming, jobs, consumer, active_jobs, started, stopped, attempt, exit_code, raised,
                   drain_elapsed, settling>>

\* The fetch errors the loop is bound to count in a row.
MaxFetchErrors == 5

max_backoff == 30

\* What psub.fetch may raise, by the type and by the words that str(e).lower()
\* holds: the timeout of an empty fetch, an error whose text names a timeout,
\* NoRespondersError ("nats: no responders available for request"),
\* ServiceUnavailableError ("nats: ServiceUnavailableError: code=503 ..."),
\* and any other error (a closed connection, say).
FetchErrors ==
    {[type |-> "TimeoutError", str |-> {"timeout"}],
     [type |-> "Exception", str |-> {"timeout"}],
     [type |-> "Exception", str |-> {"no responders"}],
     [type |-> "Exception", str |-> {"serviceunavailable"}],
     [type |-> "Exception", str |-> {}]}

ClusterUnavailable(e) == "serviceunavailable" \in e.str \/ "no responders" \in e.str

\* A faulty variant: the backoff is not capped.
Backoff_Uncapped(n) == 2 ^ n

\* backoff = min(2 ** consecutive_errors, max_backoff)
Backoff(n) == Min(2 ^ n, max_backoff)

\* psub.fetch raises e: a timeout zeroes the counter; any other error is
\* counted and slept on, by the backoff when the cluster is unavailable, by
\* min(consecutive_errors, 5) seconds otherwise; then the loop goes on.
FetchRaises(e) ==
    /\ main = "fetching"
    /\ IF e.type = "TimeoutError" \/ "timeout" \in e.str
       THEN /\ consecutive_errors' = 0
            /\ errors' = <<>>
            /\ backoff' = 0
       ELSE /\ consecutive_errors < MaxFetchErrors
            /\ consecutive_errors' = consecutive_errors + 1
            /\ errors' = Append(errors, e)
            /\ backoff' = IF ClusterUnavailable(e)
                          THEN Backoff(consecutive_errors + 1)
                          ELSE Min(consecutive_errors + 1, 5)
    /\ main' = "loop"
    /\ UNCHANGED <<subscribing, units, decoding, fonts, loop, requests, naming, jobs, load, active_jobs, shutdown_event, started, stopped, attempt,
                   exit_code, raised, drain_elapsed, settling>>

\* main() is at an await, so the tasks of the event loop run.
MainAwaits == main \in {"fetching", "draining", "close_nc", "close_health"}

\* A task starts on a body that is no job envelope and awaits msg.ack() in
\* message_handler's except clause: it never enters handle_job.
StartSettling ==
    /\ MainAwaits
    /\ tasks > 0
    /\ tasks' = tasks - 1
    /\ settling' = settling + 1
    /\ UNCHANGED <<retry, units, decoding, fonts, loop, requests, naming, jobs, ack_pending, fetched, consumer, active_jobs, main, shutdown_event,
                   started, stopped, attempt, exit_code, raised, drain_elapsed>>

FinishSettling ==
    /\ MainAwaits
    /\ settling > 0
    /\ settling' = settling - 1
    /\ UNCHANGED <<retry, units, decoding, fonts, loop, requests, naming, jobs, load, active_jobs, main, shutdown_event, started, stopped, attempt,
                   exit_code, raised, drain_elapsed>>

\* The drain of the finally clause is over: no handler is inside handle_job.
Drained == active_jobs = 0

\* finally: if active_jobs > 0 the drain loop is entered.
DrainCheck ==
    /\ main = "finally"
    /\ main' = IF Drained THEN "close_nc" ELSE "draining"
    /\ UNCHANGED <<retry, units, decoding, fonts, loop, requests, naming, jobs, load, active_jobs, shutdown_event, started, stopped, attempt,
                   exit_code, raised, drain_elapsed, settling>>

\* while active_jobs > 0 and elapsed < max_wait: sleep(1).  The loop ends when
\* the handlers have left, or when max_wait (300 s) has passed.
DrainWait ==
    /\ main = "draining"
    /\ main' = "close_nc"
    /\ drain_elapsed' = ~Drained
    /\ UNCHANGED <<retry, units, decoding, fonts, loop, requests, naming, jobs, load, active_jobs, shutdown_event, started, stopped, attempt,
                   exit_code, raised, settling>>

\* The shutdown steps of the finally clause in program order.
ShutdownOrder == <<"nats", "health">>

ClosePc(step) == IF step = ShutdownOrder[1] THEN "close_nc" ELSE "close_health"

\* What main() does after closing component number i.
AfterClose(i) == IF i < Len(ShutdownOrder) THEN ClosePc(ShutdownOrder[i + 1]) ELSE "exited"

\* await nc.close() / await health_runner.cleanup(), each only if the component
\* was started.  A close that raises leaves the finally clause with the
\* exception: nothing after it is closed.
Close(i, ok) ==
    /\ main = ClosePc(ShutdownOrder[i])
    /\ IF ~Done(started, ShutdownOrder[i])
       THEN /\ main' = AfterClose(i)
            /\ UNCHANGED <<stopped, exit_code, raised>>
       ELSE IF ok
       THEN /\ stopped' = Append(stopped, ShutdownOrder[i])
            /\ main' = AfterClose(i)
            /\ UNCHANGED <<exit_code, raised>>
       ELSE /\ main' = "exited"
            /\ exit_code' = 1
            /\ raised' = IF raised = "none" THEN "close" ELSE raised
            /\ UNCHANGED stopped
    /\ UNCHANGED <<retry, units, decoding, fonts, loop, requests, naming, jobs, load, active_jobs, shutdown_event, started, attempt, drain_elapsed,
                   settling>>

NextMain ==
    \/ \E failing \in {"none", "s3_storage", "llm_provider"} : Initialize(failing)
    \/ \E ok \in BOOLEAN : StartHealth(ok)
    \/ \E ok \in BOOLEAN : Connect(ok)
    \/ \E bind \in BOOLEAN, create \in {"ok"} \cup CreateErrors : SubscribeAttempt(bind, create)
    \/ Signal
    \/ LoopCheck
    \/ \E k \in 0..MaxBatch, j \in 0..MaxBatch : FetchReturns(k, j)
    \/ MainAwaits /\ EnterHandleJob
    \/ MainAwaits /\ \E settled \in BOOLEAN : LeaveHandleJob(settled)
    \/ StartSettling
    \/ FinishSettling
    \/ DrainCheck
    \/ DrainWait
    \/ \E i \in DOMAIN ShutdownOrder, ok \in BOOLEAN : Close(i, ok)

SpecMain == Init /\ [][NextMain]_vars

\* The fetch loop with the errors of psub.fetch told apart: a startup without
\* failures, then fetches that return or raise, until a signal.
NextFetch ==
    \/ Initialize("none")
    \/ StartHealth(TRUE)
    \/ Connect(TRUE)
    \/ SubscribeAttempt(TRUE, "ok")
    \/ Signal
    \/ LoopCheck
    \/ \E k \in 0..MaxBatch, j \in 0..MaxBatch : FetchReturns(k, j)
    \/ \E e \in FetchErrors : FetchRaises(e)

SpecFetch == Init /\ [][NextFetch]_vars

\* ----------------------------------------- LLMProvider._generate_internal

max_retries == 5
base_delay == 1

\* What client.post may give: a response with a status code, or a transport
\* error (httpx.HTTPError that is no HTTPStatusError: no connection, a timeout).
\* The transport error stands as status 0: there is no response.
StatusCodes == {200, 400, 500, 503}
PostOutcomes == StatusCodes \cup {0}

\* random.random(), in tenths.
Randoms == {0, 5, 10}

\* delay = base_delay * (2 ** attempt); jitter = delay * 0.1 * (random - 0.5);
\* the sum in hundredths of a second.
total_delay(n, random) ==
    LET delay == base_delay * (2 ^ n) * 100
    IN  delay + (delay * (random - 5)) \div 100

\* A faulty variant: every server error is tried again.
Retryable_AnyServerError(status_code, n) == status_code >= 500 /\ n < max_retries - 1

\* if response.status_code == 503: if attempt < max_retries - 1
Retryable(status_code, n) == status_code = 503 /\ n < max_retries - 1

\* generate_topic_name reaches _generate_internal: the first pass of
\* for attempt in range(max_retries), up to the await of client.post.
StartCall ==
    /\ http.pc = "idle"
    /\ http' = [http EXCEPT !.pc = "post"]
    /\ UNCHANGED <<scroll, sampling, stored, retry, decoding, fonts, loop, requests, naming, life, load, jobs, active_jobs>>

\* client.post is over: a 2xx response is the result; a 503 with attempts left
\* is slept on; any other status is raised by raise_for_status and any
\* transport error by the post itself, and the except clauses raise it again.
Post(outcome, random) ==
    /\ http.pc = "post"
    /\ http' = IF outcome = 200
               THEN [http EXCEPT !.pc = "returned", !.responses = Append(@, outcome)]
               ELSE IF outcome \in StatusCodes /\ Retryable(outcome, http.attempt)
               THEN [http EXCEPT !.pc = "sleep", !.responses = Append(@, outcome),
                                 !.waits = Append(@, total_delay(http.attempt, random))]
               ELSE [http EXCEPT !.pc = "raised", !.responses = Append(@, outcome)]
    /\ UNCHANGED <<scroll, sampling, stored, retry, decoding, fonts, loop, requests, naming, life, load, jobs, active_jobs>>

\* asyncio.sleep(total_delay) is over: continue, the next attempt posts.
SleepEnds ==
    /\ http.pc = "sleep"
    /\ http' = [http EXCEPT !.pc = "post", !.attempt = @ + 1]
    /\ UNCHANGED <<scroll, sampling, stored, retry, decoding, fonts, loop, requests, naming, life, load, jobs, active_jobs>>

NextInternal ==
    \/ StartCall
    \/ \E outcome \in PostOutcomes, random \in Randoms : Post(outcome, random)
    \/ SleepEnds

SpecInternal == Init /\ [][NextInternal]_vars

\* ------------------------------ VisualizationProcessor._fetch_vectors_from_qdrant

\* The cursor values a vector store hands out besides None.
MaxCursors == 6

Cursors == {None} \cup {Some(c) : c \in 1..MaxCursors}

\* get_collection has answered: the collection is within MAX_POINTS (all points
\* are scrolled) or larger (all ids are scrolled); offset = None,
\* prev_offset = None, and the first scroll is awaited.
StartScroll(large) ==
    /\ scroll.pc = "idle"
    /\ scroll' = [pc |-> "scrolling", large |-> large, offset |-> None, prev_offset |-> None]
    /\ UNCHANGED <<http, sampling, stored, retry, decoding, fonts, loop, requests, naming, life, load, jobs, active_jobs>>

\* The two break tests of an iteration: an empty page; an offset that is None or
\* equal to prev_offset.
Breaks(nonempty, offset, prev_offset) ==
    \/ ~nonempty
    \/ offset = None
    \/ offset = prev_offset

\* points, offset = await self.qdrant.scroll(...) returns a page (nonempty or
\* not) and a cursor, whatever the store pleases; the loop breaks or sets
\* prev_offset = offset and scrolls again from offset.
ScrollPage(nonempty, cursor) ==
    /\ scroll.pc = "scrolling"
    /\ scroll' = IF Breaks(nonempty, cursor, scroll.prev_offset)
                 THEN [scroll EXCEPT !.pc = "done", !.offset = cursor]
                 ELSE [scroll EXCEPT !.offset = cursor, !.prev_offset = cursor]
    /\ UNCHANGED <<http, sampling, stored, retry, decoding, fonts, loop, requests, naming, life, load, jobs, active_jobs>>

NextScroll ==
    \/ \E large \in BOOLEAN : StartScroll(large)
    \/ \E nonempty \in BOOLEAN, cursor \in Cursors : ScrollPage(nonempty, cursor)

\* The store answers every scroll request, so the loop always takes its next
\* step; what it answers is up to the store.
SpecScroll == Init /\ [][NextScroll]_vars /\ WF_vars(NextScroll)

\* ------------------------------------------- the keys of the object store

\* The owners and transforms the storage methods are called with, and the
\* uploads of one run.
KeyOwners == {<<"u", 1>>, <<"u", 2>>}
KeyTransforms == {41, 42}
MaxUploads == 2

\* str.startswith, on texts kept as the sequence of their pieces (the literals
\* of an f-string and the values put between them).
startswith(text, prefix) ==
    /\ Len(prefix) <= Len(text)
    /\ \A i \in 1..Len(prefix) : ToString(text[i]) = ToString(prefix[i])

\* The check of get_visualization_url and delete_visualization:
\* s3_key.startswith(f"{owner}-{transform_id}-visualizations")
KeyMatches(owner, transform_id, s3_key) ==
    startswith(s3_key, <<owner, "-", transform_id, "-visualizations">>)

\* S3Storage.get_visualization_url: ValueError for a key that fails the check,
\* else the presigned URL of the key in the transform's bucket.
get_visualization_url(owner, transform_id, s3_key) ==
    IF ~KeyMatches(owner, transform_id, s3_key)
    THEN [raised |-> TRUE, addressed |-> None]
    ELSE [raised |-> FALSE,
          addressed |-> Some([bucket |-> bucket_name(transform_id), key |-> s3_key])]

\* S3Storage.delete_visualization: ValueError for a key that fails the check,
\* else delete_object of the key in the transform's bucket.
delete_visualization(owner, transform_id, s3_key) ==
    IF ~KeyMatches(owner, transform_id, s3_key)
    THEN [raised |-> TRUE, addressed |-> None]
    ELSE [raised |-> FALSE,
          addressed |-> Some([bucket |-> bucket_name(transform_id), key |-> s3_key])]

\* The keys the readers are called with: the keys the uploads returned, and
\* keys of the form the check asks for.
KeysTried ==
    {u.key : u \in stored.uploads}
    \cup {<<owner, "-", transform_id, "-visualizations", "/", "v.html">> :
            owner \in KeyOwners, transform_id \in KeyTransforms}

\* A call of upload_visualization; the store holds the object when it returns.
UploadCall(owner, transform_id, now, answers) ==
    /\ Cardinality(stored.uploads) < MaxUploads
    /\ LET up == upload_visualization(owner, transform_id, now, answers)
           object == [bucket |-> bucket_name(transform_id), key |-> s3_path(strftime(now))]
       IN  stored' = IF up.raised
                     THEN [stored EXCEPT !.last = None]
                     ELSE [objects |-> stored.objects \cup {object},
                           uploads |-> stored.uploads \cup
                               {[owner |-> owner, transform_id |-> transform_id,
                                 key |-> up.key[1], object |-> object]},
                           last |-> None]
    /\ UNCHANGED <<http, scroll, sampling, retry, decoding, fonts, loop, requests, naming, life, load, jobs, active_jobs>>

\* A call of get_visualization_url.
GetUrlCall(owner, transform_id, s3_key) ==
    /\ LET got == get_visualization_url(owner, transform_id, s3_key)
       IN  stored' = [stored EXCEPT !.last =
               Some([op |-> "get_visualization_url", owner |-> owner,
                     transform_id |-> transform_id, s3_key |-> s3_key,
                     raised |-> got.raised, addressed |-> got.addressed])]
    /\ UNCHANGED <<http, scroll, sampling, retry, decoding, fonts, loop, requests, naming, life, load, jobs, active_jobs>>

\* A call of delete_visualization.
DeleteCall(owner, transform_id, s3_key) ==
    /\ LET del == delete_visualization(owner, transform_id, s3_key)
       IN  stored' = [stored EXCEPT
               !.objects = IF del.raised THEN @ ELSE @ \ {del.addressed[1]},
               !.last = Some([op |-> "delete_visualization", owner |-> owner,
                              transform_id |-> transform_id, s3_key |-> s3_key,
                              raised |-> del.raised, addressed |-> del.addressed])]
    /\ UNCHANGED <<http, scroll, sampling, retry, decoding, fonts, loop, requests, naming, life, load, jobs, active_jobs>>

NextKeys ==
    \E owner \in KeyOwners, transform_id \in KeyTransforms :
        \/ \E now \in Instants, answers \in StoreAnswers :
               UploadCall(owner, transform_id, now, answers)
        \/ \E s3_key \in KeysTried : GetUrlCall(owner, transform_id, s3_key)
        \/ \E s3_key \in KeysTried : DeleteCall(owner, transform_id, s3_key)

SpecKeys == Init /\ [][NextKeys]_vars

\* ------------------------------------------------- the texts of a prompt

\* The points of a cluster and the sample counts tried.
MaxTexts == 6
MaxSamples == 7

\* list[:k] of Python: the first k items, all for a k past the end, and for a
\* negative k all but the last -k.
Slice(list, k) ==
    IF k >= 0 THEN SubSeq(list, 1, Min(k, Len(list)))
    ELSE SubSeq(list, 1, Max(0, Len(list) + k))

\* samples_per_cluster = llm_config.config.get("samples_per_cluster", 5)
samples_per_cluster(config) ==
    IF "samples_per_cluster" \in DOMAIN config THEN config["samples_per_cluster"] ELSE 5

\* The texts the prompt of a cluster is made of: _generate_cluster_labels keeps
\* the texts that are not empty and hands the first
\* max(1, min(100, visualization_config.samples_per_cluster)) of them to
\* generate_topic_name, whose provider method slices them once more by the
\* samples_per_cluster of the configuration bag.
sample_texts(texts, visualization_samples, config) ==
    LET kept == SelectSeq(texts, LAMBDA t : t # 0)
        handed == Slice(kept, Max(1, Min(100, visualization_samples)))
    IN  Slice(handed, samples_per_cluster(config))

\* The texts of the points of one cluster in order, 0 for an empty text and the
\* number of the point for any other; the samples_per_cluster of the
\* visualization configuration; the configuration bag, which may set its own.
SampleInputs ==
    UNION {[texts : {t \in [1..n -> 0..n] : \A i \in 1..n : t[i] \in {0, i}},
            visualization_samples : 0..MaxSamples,
            config : {<<>>} \cup {[k \in {"samples_per_cluster"} |-> v] : v \in -1..MaxSamples}]
           : n \in 1..MaxTexts}

\* One naming call: the prompt is built.
BuildPrompt(in) ==
    /\ sampling = None
    /\ sampling' = Some([in |-> in,
                         prompt |-> sample_texts(in.texts, in.visualization_samples, in.config)])
    /\ UNCHANGED <<http, scroll, stored, retry, decoding, fonts, loop, requests, naming, life, load, jobs, active_jobs>>

NextSamples == \E in \in SampleInputs : BuildPrompt(in)

SpecSamples == Init /\ [][NextSamples]_vars

\* ----------------------------------------------- _generate_cluster_labels

\* The points labelled, the cluster ids HDBSCAN hands out (-1 is noise), and
\* the llm_batch_size values tried.
MaxLabelled == 2
MaxLabelId == 1
MaxLlmBatch == 2

RECURSIVE sorted(_)
sorted(S) ==
    IF S = {} THEN <<>>
    ELSE LET lo == CHOOSE x \in S : \A y \in S : x <= y
         IN  <<lo>> \o sorted(S \ {lo})

\* A faulty variant: the noise id is not filtered out.
unique_clusters_WithNoise(labels) == sorted({labels[i] : i \in DOMAIN labels})

\* sorted([cluster_id for cluster_id in set(labels) if cluster_id >= 0])
unique_clusters(labels) ==
    sorted({cluster_id \in {labels[i] : i \in DOMAIN labels} : cluster_id >= 0})

\* str.strip() and str.lower() on the strings the model uses.
strip(str) == SelectSeq(str, LAMBDA ch : ch # " ")
lower(str) == IF str = "Internal" THEN "internal" ELSE str

\* The LLMConfig values a job carries: provider and api_key are required strings
\* (the key as its characters).
LlmConfigs ==
    [provider : {"internal", "Internal", "cohere"}, api_key : {<<>>, <<" ">>, <<"k">>}]

\* A faulty variant: a key of blanks counts as a key.
use_llm_AnyKey(llm_provider, llm_config) ==
    /\ llm_provider
    /\ ~IsNone(llm_config)
    /\ (lower(llm_config[1].provider) = "internal" \/ llm_config[1].api_key # <<>>)

\* use_llm: a provider object, a config, and an internal provider or a key that
\* is not blank.
use_llm(llm_provider, llm_config) ==
    LET is_internal_provider ==
            ~IsNone(llm_config) /\ lower(llm_config[1].provider) = "internal"
        has_valid_api_key ==
            /\ ~IsNone(llm_config)
            /\ llm_config[1].api_key # <<>>
            /\ Len(strip(llm_config[1].api_key)) > 0
    IN  /\ llm_provider
        /\ ~IsNone(llm_config)
        /\ (is_internal_provider \/ has_valid_api_key)

\* f"Cluster {cluster_id}"
NumericLabel(cluster_id) == <<"Cluster", cluster_id>>

\* The keys a loop goes through.
Keys(seq) == {seq[i] : i \in DOMAIN seq}

\* The assignments dict[key] = assigned[key] of a loop over the keys of assigned.
PutAll(dict, assigned) ==
    [k \in DOMAIN dict \cup DOMAIN assigned |->
        IF k \in DOMAIN assigned THEN assigned[k] ELSE dict[k]]

\* batch_size = max(1, min(100, llm_batch_size))
batch_size(llm_batch_size) == Max(1, Min(100, llm_batch_size))

\* What awaiting generate_topic_name yields for a cluster: the topic name the
\* LLM answered, or the exception the call raised.
TopicName(cluster_id) == [exception |-> FALSE, value |-> <<"topic", cluster_id>>]
LlmError == [exception |-> TRUE, value |-> Exc("RuntimeError", <<"llm", "failed">>)]

\* asyncio.gather(*aws, return_exceptions): the results by task when no task
\* raised or the exceptions are returned as results; else the first exception
\* is raised to the awaiting caller.
gather(results, return_exceptions) ==
    LET failed == {c \in DOMAIN results : results[c].exception}
    IN  IF return_exceptions \/ failed = {}
        THEN [raised |-> None, results |-> results]
        ELSE [raised |-> Some(results[CHOOSE c \in failed : \A d \in failed : c <= d].value),
              results |-> <<>>]

\* A faulty variant: the exception of a naming call goes to the caller.
BatchGather_Propagating(results) == gather(results, FALSE)

\* results = await asyncio.gather(*[task for _, task in tasks], return_exceptions=True)
BatchGather(results) == gather(results, TRUE)

\* The label a result of the batch gives its cluster.
LabelOf(cluster_id, res) ==
    IF res.exception THEN NumericLabel(cluster_id) ELSE res.value

\* The arguments _generate_cluster_labels may get: labels and texts for the same
\* points (a text may be empty), the worker's provider object or None, the job's
\* llm_config or None, and visualization_config.llm_batch_size.
Labellings ==
    UNION {[labels : [1..n -> -1..MaxLabelId], texts : [1..n -> {"", "text"}],
            llm_provider : BOOLEAN, llm_config : {None} \cup {Some(c) : c \in LlmConfigs},
            llm_batch_size : 0..MaxLlmBatch] : n \in 0..MaxLabelled}

\* for batch_start in range(0, len(unique_clusters), batch_size): the next batch,
\* or the return of the dictionary.
NextBatch(start, clusters) ==
    IF start < Len(clusters) THEN "batch" ELSE "returned"

\* _generate_cluster_labels up to its first await: the numeric labels when the
\* LLM is not used, else the first batch is next.
GenerateClusterLabels(args) ==
    /\ namer.pc = "idle"
    /\ labelling' = args
    /\ IF use_llm(args.llm_provider, args.llm_config)
       THEN /\ cluster_labels' = <<>>
            /\ namer' = [namer EXCEPT !.pc = NextBatch(0, unique_clusters(args.labels))]
       ELSE /\ cluster_labels' =
                 PutAll(<<>>, [c \in Keys(unique_clusters(args.labels)) |-> NumericLabel(c)])
            /\ namer' = [namer EXCEPT !.pc = "returned"]
    /\ UNCHANGED <<retry, units, decoding, fonts, loop, requests, life, load, jobs, active_jobs>>

\* A faulty variant: a batch takes every cluster that is left.
batch_clusters_All(clusters, start, size) ==
    SubSeq(clusters, start + 1, Len(clusters))

\* The clusters of the batch that starts at batch_start.
batch_clusters(clusters, start, size) ==
    SubSeq(clusters, start + 1, Min(start + size, Len(clusters)))

\* The texts of the points of a cluster that are not empty.
cluster_texts(args, cluster_id) ==
    {i \in DOMAIN args.labels : args.labels[i] = cluster_id /\ args.texts[i] # ""}

\* The clusters the batch under way makes a naming call for.
Called ==
    LET batch == batch_clusters(unique_clusters(labelling.labels), namer.batch_start,
                                batch_size(labelling.llm_batch_size))
    IN  {batch[i] : i \in {j \in DOMAIN batch : cluster_texts(labelling, batch[j]) # {}}}

\* The tasks of one batch are built: the clusters without texts get the numeric
\* label, the others a naming call each; with calls to make the gather starts
\* them all and is awaited, without any the next batch is next.
DispatchBatch ==
    LET clusters == unique_clusters(labelling.labels)
        size == batch_size(labelling.llm_batch_size)
        batch == batch_clusters(clusters, namer.batch_start, size)
        silent == SelectSeq(batch, LAMBDA c : cluster_texts(labelling, c) = {})
    IN  /\ namer.pc = "batch"
        /\ cluster_labels' = PutAll(cluster_labels, [c \in Keys(silent) |-> NumericLabel(c)])
        /\ namer' = IF Called = {}
                    THEN [namer EXCEPT !.pc = NextBatch(namer.batch_start + size, clusters),
                                       !.batch_start = namer.batch_start + size]
                    ELSE [namer EXCEPT !.pc = "gather", !.in_flight = Called, !.settled = <<>>]
        /\ UNCHANGED <<retry, units, decoding, fonts, loop, requests, life, load, jobs, active_jobs, labelling>>

\* A naming call of the batch answers or raises (res).
SettleCall(cluster_id, res) ==
    /\ namer.pc = "gather"
    /\ cluster_id \in namer.in_flight
    /\ namer' = [namer EXCEPT !.in_flight = @ \ {cluster_id},
                              !.settled = PutAll(@, [c \in {cluster_id} |-> res])]
    /\ UNCHANGED <<retry, units, decoding, fonts, loop, requests, life, load, jobs, active_jobs, labelling,
                   cluster_labels>>

\* The gather of a batch returns (llm: what each call yielded) and each result
\* gives its label; then the next batch.
\* An exception leaving the batch is logged and raised again.
NameBatch(llm) ==
    LET clusters == unique_clusters(labelling.labels)
        size == batch_size(labelling.llm_batch_size)
        gathered == BatchGather(llm)
    IN  /\ namer.pc = "gather"
        /\ namer.in_flight = {}
        /\ IF IsNone(gathered.raised)
           THEN /\ cluster_labels' =
                     PutAll(cluster_labels,
                            [c \in DOMAIN llm |-> LabelOf(c, gathered.results[c])])
                /\ namer' = [pc |-> NextBatch(namer.batch_start + size, clusters),
                             batch_start |-> namer.batch_start + size,
                             results |-> PutAll(namer.results, gathered.results),
                             in_flight |-> {}, settled |-> <<>>]
           ELSE /\ namer' = [namer EXCEPT !.pc = "raised"]
                /\ UNCHANGED cluster_labels
        /\ UNCHANGED <<retry, units, decoding, fonts, loop, requests, life, load, jobs, active_jobs, labelling>>

\* Each naming call answers or raises.
NextLabels ==
    \/ namer.pc = "idle" /\ \E args \in Labellings : GenerateClusterLabels(args)
    \/ DispatchBatch
    \/ \E c \in namer.in_flight, answers \in BOOLEAN :
          SettleCall(c, IF answers THEN TopicName(c) ELSE LlmError)
    \/ NameBatch(namer.settled)

SpecLabels == Init /\ [][NextLabels]_vars

\* --------------------------------------------------------- the event loop

\* The health requests that may wait for an answer at once.
MaxProbes == 2

\* How the code makes each I/O call and runs each stage of a job:
\* "await" on a coroutine of an asynchronous client (the loop runs other tasks
\* meanwhile), "executor" by loop.run_in_executor, or "sync", a blocking call
\* made on the event loop's thread.
LlmCall(provider) ==
    IF provider \in {"cohere", "openai"} THEN "sync" ELSE "await"

JobIo(provider) ==
    <<[op |-> "publish_status", how |-> "await"],
      [op |-> "qdrant_scroll", how |-> "await"],
      [op |-> "umap", how |-> "executor"],
      [op |-> "hdbscan", how |-> "executor"]>>
    \o (IF provider = "none" THEN <<>>
        ELSE <<[op |-> "llm_call", how |-> LlmCall(provider)]>>)
    \o <<[op |-> "datamapplot", how |-> "executor"],
         [op |-> "s3_upload", how |-> "sync"],
         [op |-> "publish_result", how |-> "await"],
         [op |-> "ack", how |-> "await"]>>

\* The LLM provider of a job: none (numeric labels) or the provider of its
\* llm_config.
Providers == {"none", "cohere", "openai", "internal"}

LoopFree == blocking = 0

\* The loop starts the handler task of a job.
StartJob(h, provider) ==
    /\ LoopFree
    /\ io[h].step = 0
    /\ io' = [io EXCEPT ![h] = [provider |-> provider, step |-> 1, state |-> "idle"]]
    /\ UNCHANGED <<blocking, probes, retry, units, decoding, fonts, requests, naming, life, load, jobs, active_jobs>>

\* The loop runs handler h up to its next call: an awaited call or an offloaded
\* stage suspends the task, a synchronous call keeps the thread.
BeginIo(h) ==
    /\ LoopFree
    /\ io[h].step \in DOMAIN JobIo(io[h].provider)
    /\ io[h].state = "idle"
    /\ io' = [io EXCEPT ![h].state = "waiting"]
    /\ blocking' = IF JobIo(io[h].provider)[io[h].step].how = "sync" THEN h ELSE 0
    /\ UNCHANGED <<probes, retry, units, decoding, fonts, requests, naming, life, load, jobs, active_jobs>>

\* The call of h completes (the peer answers, the executor's thread finishes):
\* a synchronous call returns and releases the thread, the others wake the task.
EndIo(h) ==
    /\ io[h].state = "waiting"
    /\ blocking \in {0, h}
    /\ io' = [io EXCEPT ![h].state = "idle", ![h].step = @ + 1]
    /\ blocking' = 0
    /\ UNCHANGED <<probes, retry, units, decoding, fonts, requests, naming, life, load, jobs, active_jobs>>

\* A request for /health/live or /health/ready arrives at the socket.
Probe ==
    /\ probes < MaxProbes
    /\ probes' = probes + 1
    /\ UNCHANGED <<io, blocking, retry, units, decoding, fonts, requests, naming, life, load, jobs, active_jobs>>

\* The loop runs health_check_handler or readiness_check_handler.
Respond ==
    /\ LoopFree
    /\ probes > 0
    /\ probes' = probes - 1
    /\ UNCHANGED <<io, blocking, retry, units, decoding, fonts, requests, naming, life, load, jobs, active_jobs>>

NextLoop ==
    \/ \E h \in Handlers, provider \in Providers : StartJob(h, provider)
    \/ \E h \in Handlers : BeginIo(h) \/ EndIo(h)
    \/ Probe
    \/ Respond

SpecLoop == Init /\ [][NextLoop]_vars

\* ------------------------------------------------------- font_patcher.py

\* The elements of a rendered document.
MaxElements == 2

\* A document is the sequence of its elements; an element is a tag or CSS rule
\* that references a URL (or the head tag, or text), and a URL is its host and
\* its path.  The words of the patterns that occur in hosts and paths:
Contained(word) ==
    CASE word = "fonts.googleapis.com" -> {"fonts.googleapis.com", "font"}
      [] word = "fonts.gstatic.com" -> {"fonts.gstatic.com", "font"}
      [] word = "maxcdn.bootstrapcdn.com" -> {"maxcdn.bootstrapcdn.com"}
      [] word = "cdnjs.cloudflare.com" -> {"cdnjs.cloudflare.com"}
      [] word = "kit.fontawesome.com" -> {"fontawesome", "font"}
      [] word = "unpkg.com" -> {"unpkg.com"}
      [] word = "font-awesome.min.css" -> {"font-awesome", "font"}
      [] OTHER -> {}

\* The URLs a rendered document may reference.
Urls ==
    {[host |-> "fonts.googleapis.com", path |-> "css2"],
     [host |-> "fonts.gstatic.com", path |-> "roboto.woff2"],
     [host |-> "maxcdn.bootstrapcdn.com", path |-> "font-awesome.min.css"],
     [host |-> "maxcdn.bootstrapcdn.com", path |-> "bootstrap.min.css"],
     [host |-> "cdnjs.cloudflare.com", path |-> "font-awesome.min.css"],
     [host |-> "cdnjs.cloudflare.com", path |-> "d3.min.js"],
     [host |-> "kit.fontawesome.com", path |-> "kit.js"],
     [host |-> "unpkg.com", path |-> "deck.gl.min.js"],
     [host |-> "d3js.org", path |-> "d3.min.js"]}

\* <link rel=.. href=URL> (rel as written, with or without quotes),
\* <script src=URL>, @import url(URL);, @import "URL";, and src: url(URL) of a
\* @font-face rule; the head tag and text without a URL.
Elements ==
    [tag : {"link"}, rel : {"'stylesheet'", "'preconnect'", "preconnect"}, url : Urls]
    \cup [tag : {"script", "import_url", "import_string", "font_face"}, rel : {""}, url : Urls]
    \cup {[tag |-> t, rel |-> "", url |-> [host |-> "", path |-> ""]] : t \in {"head", "text"}}

Documents == UNION {[1..n -> Elements] : n \in 0..MaxElements}

\* The element's text has the literal in it.
UrlHas(el, literal) ==
    literal \in Contained(el.url.host) \cup Contained(el.url.path)

\* EXTERNAL_RESOURCE_PATTERNS, in order, by name; pattern.search on an element.
EXTERNAL_RESOURCE_PATTERNS ==
    <<"Google Fonts link", "Google Fonts static link", "Google Fonts preconnect",
      "Google Fonts gstatic preconnect", "Font-Awesome CDN link",
      "Font-Awesome CDNJS link", "FontAwesome link", "preconnect link",
      "Google Fonts @import", "External font @import">>

Preconnect(el) == el.rel = "'preconnect'"

Matches(description, el) ==
    CASE description = "Google Fonts link" ->
            el.tag = "link" /\ UrlHas(el, "fonts.googleapis.com")
      [] description = "Google Fonts static link" ->
            el.tag = "link" /\ UrlHas(el, "fonts.gstatic.com")
      [] description = "Google Fonts preconnect" ->
            el.tag = "link" /\ Preconnect(el) /\ UrlHas(el, "fonts.googleapis.com")
      [] description = "Google Fonts gstatic preconnect" ->
            el.tag = "link" /\ Preconnect(el) /\ UrlHas(el, "fonts.gstatic.com")
      [] description = "Font-Awesome CDN link" ->
            /\ el.tag = "link"
            /\ "maxcdn.bootstrapcdn.com" \in Contained(el.url.host)
            /\ "font-awesome" \in Contained(el.url.path)
      [] description = "Font-Awesome CDNJS link" ->
            /\ el.tag = "link"
            /\ "cdnjs.cloudflare.com" \in Contained(el.url.host)
            /\ "font-awesome" \in Contained(el.url.path)
      [] description = "FontAwesome link" ->
            el.tag = "link" /\ UrlHas(el, "fontawesome")
      [] description = "preconnect link" ->
            el.tag = "link" /\ Preconnect(el)
      [] description = "Google Fonts @import" ->
            el.tag = "import_url" /\ "fonts.googleapis.com" \in Contained(el.url.host)
      [] description = "External font @import" ->
            el.tag = "import_url" /\ UrlHas(el, "font")

\* html_content = pattern.sub("", html_content), pattern after pattern.
RECURSIVE RemoveAll(_, _)
RemoveAll(html_content, patterns) ==
    IF patterns = <<>> THEN html_content
    ELSE RemoveAll(SelectSeq(html_content, LAMBDA el : ~Matches(Head(patterns), el)),
                   Tail(patterns))

\* The <style> element with the embedded local fonts.
font_style_tag == [tag |-> "style", rel |-> "", url |-> [host |-> "", path |-> ""]]

\* The style element goes behind the first head tag, or in front of the
\* document when it has none.
InsertFonts(html_content) ==
    LET heads == {i \in DOMAIN html_content : html_content[i].tag = "head"}
    IN  IF heads = {} THEN <<font_style_tag>> \o html_content
        ELSE LET insert_pos == CHOOSE i \in heads : \A j \in heads : i <= j
             IN  SubSeq(html_content, 1, insert_pos) \o <<font_style_tag>>
                     \o SubSeq(html_content, insert_pos + 1, Len(html_content))

\* patch_html_fonts: local_font_css is the CSS of the fonts directory, empty
\* when the worker has none.
patch_html_fonts(html_content, local_font_css) ==
    IF html_content = <<>> THEN html_content
    ELSE LET stripped == RemoveAll(html_content, EXTERNAL_RESOURCE_PATTERNS)
         IN  IF local_font_css THEN InsertFonts(stripped) ELSE stripped

\* verify_no_external_requests: the URLs of the document that have one of the
\* listed domains in them.
ExternalDomains ==
    {"fonts.googleapis.com", "fonts.gstatic.com", "maxcdn.bootstrapcdn.com",
     "cdnjs.cloudflare.com", "fontawesome", "unpkg.com"}

verify_no_external_requests(html_content) ==
    SelectSeq(html_content,
              LAMBDA el : \E domain \in ExternalDomains : UrlHas(el, domain))

\* _generate_visualization_sync patches the document datamapplot saved.
PatchRendered(html_content, local_font_css) ==
    /\ rendered = None
    /\ rendered' = Some(html_content)
    /\ patched' = Some(patch_html_fonts(html_content, local_font_css))
    /\ UNCHANGED <<retry, units, decoding, loop, requests, naming, life, load, jobs, active_jobs>>

NextFonts ==
    rendered = None /\ \E html_content \in Documents, local_font_css \in BOOLEAN :
        PatchRendered(html_content, local_font_css)

SpecFonts == Init /\ [][NextFonts]_vars

\* ------------------------------------------ VisualizationTransformJob

\* The largest identifier a payload carries (the smallest is -1).
MaxId == 1

\* The values a JSON object may bind to an int field and to a str field of the
\* job: null, or a value of the type.
IntValues == {None} \cup {Some(n) : n \in -1..MaxId}
StrValues == {None, Some(""), Some("c")}

\* The JSON objects of job messages, by the fields the claims are about; the
\* other fields are as the model requires them.
Payloads ==
    [visualization_transform_id : IntValues, visualization_id : IntValues,
     embedded_dataset_id : IntValues, qdrant_collection_name : StrValues]

\* The declarations of the fields: "visualization_transform_id: int",
\* "qdrant_collection_name: str" and so on, without a Field constraint.  A
\* value validates when it is of the declared type.
Validates(field, value) == ~IsNone(value)

\* VisualizationTransformJob(**job_data) returns the job when every field
\* validates, and raises ValidationError otherwise.
Binds(data) == \A field \in DOMAIN data : Validates(field, data[field])

\* message_handler's try block on a JSON object: the parse and, for a job,
\* the call of handle_job; else the except clause that takes the exception.
ParsePayload(data) ==
    /\ job_data = None
    /\ job_data' = Some(data)
    /\ decoded' =
         LET outcome == Decode([utf8 |-> TRUE, json |-> "object", binds |-> Binds(data)])
         IN  Some(IF outcome = "job" THEN "handle_job" ELSE HandlerClause(outcome))
    /\ UNCHANGED <<units, retry, fonts, loop, requests, naming, life, load, jobs, active_jobs>>

NextDecode ==
    job_data = None /\ \E data \in Payloads : ParsePayload(data)

SpecDecode == Init /\ [][NextDecode]_vars

\* ------------------------------------------------- what a run has shown

\* Handler h was given a job envelope.
IsJob(h) == hmsg[h] # 0 /\ Decode(body[hmsg[h]]) = "job"

\* The task of handler h has ended.
Finished(h) == pc[h] \in {"done", "crashed"}

\* The publish calls of h by the status of the envelope: terminal ("success",
\* "failed") or interim ("processing").
TerminalCalls(h) == {i \in DOMAIN sent[h] : sent[h][i].data["status"] # "processing"}
ProcessingCalls(h) == DOMAIN sent[h] \ TerminalCalls(h)

\* The publish calls of h that returned: the envelopes published.
Published(h) == {i \in DOMAIN sent[h] : sent[h][i].ok}

AckCalled(h) == \E i \in DOMAIN settles[h] : settles[h][i].op = "ack"
NakCalled(h) == \E i \in DOMAIN settles[h] : settles[h][i].op = "nak"

\* h is past the publish of its terminal envelope.
PastPublish(h) == pc[h] \in {"ack", "nak", "nak_unexpected", "done", "crashed"}

Words(description) == {description[i] : i \in DOMAIN description}

\* ------------------------------------------------------------------- C1

\* C1 as stated: every job a handler has dealt with to the end has exactly one
\* terminal envelope published, whatever the publish call did.
C1_ExactlyOnePublished ==
    \A h \in Handlers :
        (IsJob(h) /\ Finished(h)) =>
            Cardinality(TerminalCalls(h) \cap Published(h)) = 1

\* C1: for every delivery of a job, handle_job makes exactly one publish call
\* for a terminal envelope (none before the pipeline and the upload are over,
\* one from then on), on the job's status subject; so at most one terminal
\* envelope is published, and one is published exactly when that call returns.
C1_OneTerminalCall ==
    \A h \in Handlers :
        IsJob(h) =>
            /\ Cardinality(TerminalCalls(h)) = (IF PastPublish(h) THEN 1 ELSE 0)
            /\ \A i \in TerminalCalls(h) : sent[h][i].subject = StatusSubject(Job(h))

C1_Witness ==
    \E h \in Handlers :
        /\ IsJob(h) /\ pc[h] = "done"
        /\ \E i \in TerminalCalls(h) \cap Published(h) : sent[h][i].data["status"] = "success"

\* ------------------------------------------------------------------- C2

\* C2: the handlers of one worker inside handle_job are never more than 10, the
\* max_ack_pending the worker configures, whether it created the consumer or
\* bound to one that existed.
C2_ActiveJobsBounded == active_jobs <= MAX_ACK_PENDING

\* ------------------------------------------------------------------- C3

\* C3: at most one handler is inside handle_job for a job envelope at any time,
\* redelivery after the ack wait included.
C3_OneHandlerPerEnvelope ==
    \A h1, h2 \in Handlers :
        (h1 # h2 /\ hmsg[h1] # 0 /\ hmsg[h1] = hmsg[h2]) =>
            ~(InHandleJob(h1) /\ InHandleJob(h2))

\* ------------------------------------------------------------------- C4

C5_InvalidAcked ==
    \A h \in Handlers :
        (hmsg[h] # 0 /\ ~IsJob(h) /\ pc[h] = "done") =>
            /\ settles[h] = <<[op |-> "ack", ok |-> TRUE]>>
            /\ Len(counted[h]) = 1
            /\ sent[h] = <<>>

\* ------------------------------------------------------------------- C6

\* The pipeline of h failed (a stage raised, the budget ran out) or its upload did.
PipelineFailed(h) == pipeline[h].state \in {"raised", "cancelled", "upload_failed"}

\* C6: a job whose pipeline or upload fails gets a terminal envelope "failed"
\* with a non-empty error description and, when that publish returns, is acked
\* and not nak'd.
C6_FailureAcked ==
    \A h \in Handlers :
        (IsJob(h) /\ PipelineFailed(h)) =>
            /\ PastPublish(h) => TerminalCalls(h) # {}
            /\ \A i \in TerminalCalls(h) :
                 /\ sent[h][i].data["status"] = "failed"
                 /\ "errorMessage" \in DOMAIN sent[h][i].data
                 /\ sent[h][i].data["errorMessage"] # <<>>
                 /\ (sent[h][i].ok /\ pc[h] # "ack") => (AckCalled(h) /\ ~NakCalled(h))

\* ------------------------------------------------------------------- C7

\* What holds of a handler whose pipeline the budget has cancelled: the job is
\* failed with a description that has the word timeout, nothing was uploaded,
\* and the terminal envelope says the same.
TimedOut(h) ==
    /\ result[h].status = "failed"
    /\ "timeout" \in Words(result[h].error_message[1])
    /\ IsNone(result[h].html_s3_key)
    /\ pc[h] \notin {"pipeline", "upload"}
    /\ IsNone(processed[h].returned)
    /\ \A i \in TerminalCalls(h) :
         /\ sent[h][i].data["status"] = "failed"
         /\ "timeout" \in Words(sent[h][i].data["errorMessage"])
         /\ "htmlS3Key" \notin DOMAIN sent[h][i].data

\* C7 as stated: on a budget timeout the stage in progress is aborted as well.
C7_StageAborted ==
    \A h \in Handlers :
        pipeline[h].state = "cancelled" => (executor[h] = "idle" /\ TimedOut(h))

\* C7: when the budget of a job runs out, no later stage is started (process_job
\* takes no further step and computes nothing more; a stage already running in
\* an executor thread is not interrupted, it can only finish), no upload is
\* attempted, and the terminal envelope is "failed" with the word timeout.
C7_TimeoutStopsJob ==
    /\ [](\A h \in Handlers : pipeline[h].state = "cancelled" => TimedOut(h))
    /\ [][\A h \in Handlers :
            pipeline[h].state = "cancelled" =>
                /\ pipeline'[h] = pipeline[h]
                /\ processed'[h] = processed[h]
                /\ executor'[h] \in {executor[h], "idle"}
                /\ Cardinality(ProcessingCalls(h))' = Cardinality(ProcessingCalls(h))]_vars

C7_Witness ==
    \E h \in Handlers :
        /\ pipeline[h].state = "cancelled" /\ pc[h] = "done"
        /\ pipeline[h].step = 5
        /\ TerminalCalls(h) \cap Published(h) # {}

\* ------------------------------------------------------------------- C8

Percent(e) == e.data["statsJson"][2]

\* The processing envelopes h has emitted (publish calls made), and those
\* published (calls that returned), each in the order of the calls.
EmittedProgress(h) == SelectSeq(sent[h], LAMBDA e : e.data["status"] = "processing")
PublishedProgress(h) == SelectSeq(EmittedProgress(h), LAMBDA e : e.ok)

NonDecreasing(q) == \A i, j \in DOMAIN q : i < j => Percent(q[i]) <= Percent(q[j])

Succeeded(h) == IsJob(h) /\ result[h].status = "success"

\* C8 as stated: the published processing envelopes of a job start at 0, never
\* decrease, and end at 88 or more when the job succeeds.
C8_PublishedProgress ==
    \A h \in Handlers :
        LET p == PublishedProgress(h) IN
        /\ NonDecreasing(p)
        /\ p # <<>> => Percent(p[1]) = 0
        /\ (Succeeded(h) /\ p # <<>>) => Percent(p[Len(p)]) >= 88

\* C8: the processing envelopes a job emits carry non-decreasing progress, the
\* first 0 and, when the job succeeds, the last at least 88; they are published
\* in the order emitted, less those whose publish raised, so the published
\* values never decrease either and start at 0 when the first publish returned.
C8_EmittedProgress ==
    \A h \in Handlers :
        LET e == EmittedProgress(h)
            p == PublishedProgress(h) IN
        /\ NonDecreasing(e)
        /\ e # <<>> => Percent(e[1]) = 0
        /\ Succeeded(h) => (e # <<>> /\ Percent(e[Len(e)]) >= 88)
        /\ NonDecreasing(p)
        /\ (e # <<>> /\ e[1].ok) => Percent(p[1]) = 0

C8_Witness ==
    \E h \in Handlers :
        /\ Succeeded(h) /\ pc[h] = "done"
        /\ Len(EmittedProgress(h)) = 11
        /\ Len(PublishedProgress(h)) = 9

\* ------------------------------------------------------------------- C9

IsStarting(e) == e.data["status"] = "processing" /\ e.data["statsJson"] = <<"starting", 0>>

CarriesKeyAndCounts(data) ==
    /\ {"htmlS3Key", "pointCount", "clusterCount"} \subseteq DOMAIN data
    /\ data["htmlS3Key"] # <<>>
    /\ data["pointCount"] >= 0
    /\ data["clusterCount"] >= 0

\* C10 as stated: whenever process_job has returned, the terminal envelope has
\* the key and the counts.
C10_ReturnedCarriesKey ==
    \A h \in Handlers :
        pipeline[h].state \in {"returned", "uploaded", "upload_failed"} =>
            \A i \in TerminalCalls(h) : CarriesKeyAndCounts(sent[h][i].data)

\* C10: when process_job has returned and the upload has succeeded, the terminal
\* envelope is "success" and carries a non-null storage key, the point count and
\* the cluster count process_job returned, neither negative.
C10_UploadedCarriesKey ==
    \A h \in Handlers :
        pipeline[h].state = "uploaded" =>
            /\ PastPublish(h) => TerminalCalls(h) # {}
            /\ \A i \in TerminalCalls(h) :
                 /\ sent[h][i].data["status"] = "success"
                 /\ CarriesKeyAndCounts(sent[h][i].data)
                 /\ sent[h][i].data["pointCount"] = processed[h].returned[1].point_count
                 /\ sent[h][i].data["clusterCount"] = processed[h].returned[1].cluster_count

C10_Witness ==
    \E h \in Handlers :
        /\ pipeline[h].state = "uploaded" /\ pc[h] = "done"
        /\ \E i \in TerminalCalls(h) \cap Published(h) :
             sent[h][i].data["pointCount"] = 1 /\ sent[h][i].data["clusterCount"] = 1

\* ------------------------------------------------------------------ C11

\* Every broker call of h so far has returned.
BrokerSucceeded(h) ==
    /\ \A i \in DOMAIN sent[h] : sent[h][i].ok
    /\ \A i \in DOMAIN settles[h] : settles[h][i].ok

\* No stage and no upload of h has raised, and its budget has not run out.
ServicesSucceeded(h) ==
    \A i \in DOMAIN counted[h] :
        counted[h][i] \notin {e.type : e \in StageErrors \cup UploadErrors} \cup {"timeout"}

\* C11: a valid job envelope whose handler has ended, with the vector store,
\* the stages, the upload and every broker call having succeeded, has a terminal
\* envelope "success" without errorMessage on the job's status subject, with
\* the number of points fetched, and was acked.
C11_ValidJobSucceeds ==
    \A h \in Handlers :
        (IsJob(h) /\ pc[h] = "done" /\ BrokerSucceeded(h) /\ ServicesSucceeded(h)) =>
            /\ AckCalled(h)
            /\ \E i \in TerminalCalls(h) :
                 /\ sent[h][i].subject = StatusSubject(Job(h))
                 /\ sent[h][i].data["status"] = "success"
                 /\ "errorMessage" \notin DOMAIN sent[h][i].data
                 /\ sent[h][i].data["pointCount"] = processed[h].vectors[1]

\* ------------------------------------------------------------------ C12

\* C12: once the broker connection has been closed no handler is running (in
\* handle_job or in message_handler), unless the drain gave up after 300 s.
C12_NoHandlerAtClose ==
    Done(stopped, "nats") => (active_jobs + settling = 0 \/ drain_elapsed)

\* ------------------------------------------------------------------ C13

\* C13: a main() that ends without an exception exits with code 0; when the
\* connection or the subscription fails for good the exit code is 1 and the
\* fetch loop is never entered: nothing is fetched.
C13_ExitCodes ==
    /\ (main = "exited" /\ raised = "none") => exit_code = 0
    /\ raised \in {"connect", "subscribe"} =>
         /\ exit_code = 1
         /\ ~Done(started, "fetch_loop")
         /\ main \in {"finally", "draining", "close_nc", "close_health", "exited"}
         /\ fetched = 0 /\ tasks = 0

C13_Witness ==
    /\ main = "exited"
    /\ raised = "subscribe"
    /\ attempt = NATS_STREAM_RETRY_ATTEMPTS
    /\ exit_code = 1

\* ------------------------------------------------------------------ C14

\* C14: the broker connection is closed last: when it is closed, the health
\* server, if it was started, has been shut down.
C14_BrokerClosedLast ==
    Done(stopped, "nats") => (Done(started, "health") => Done(stopped, "health"))

\* ------------------------------------------------------------------ C15

\* The order of startup the claim gives.
\* C15: the startup steps are done in the order object store, LLM provider,
\* broker connection, consumer, health endpoints, fetch loop; the health
\* endpoints never start before the connection and the consumer exist.
C15_StartupOrder ==
    /\ \E n \in 0..6 :
         started = SubSeq(<<"s3_storage", "llm_provider", "nats", "consumer",
                            "health", "fetch_loop">>, 1, n)
    /\ Done(started, "health") => (Done(started, "nats") /\ Done(started, "consumer"))

\* ------------------------------------------------------------------ C16

C17_NamingFailureTolerated ==
    /\ namer.pc # "raised"
    /\ \A c \in DOMAIN namer.results :
         /\ c \in DOMAIN cluster_labels
         /\ cluster_labels[c] = IF namer.results[c].exception
                                THEN <<"Cluster", c>>
                                ELSE <<"topic", c>>

C17_Witness ==
    /\ namer.pc = "returned"
    /\ \E c, d \in DOMAIN namer.results :
         /\ namer.results[c].exception /\ cluster_labels[c] = <<"Cluster", c>>
         /\ ~namer.results[d].exception /\ cluster_labels[d] = <<"topic", d>>

\* ------------------------------------------------------------------ C18

\* C18: the keys of the dictionary _generate_cluster_labels returns are the
\* distinct cluster ids >= 0 among the labels, with or without the LLM; the
\* noise id -1 is never a key.
C18_KeysAreClusters ==
    /\ -1 \notin DOMAIN cluster_labels
    /\ namer.pc = "returned" =>
         DOMAIN cluster_labels =
             {labelling.labels[i] : i \in DOMAIN labelling.labels} \ {-1}

C18_Witness ==
    /\ namer.pc = "returned"
    /\ namer.results # <<>>
    /\ \E i, j \in DOMAIN labelling.labels :
         labelling.labels[i] = -1 /\ labelling.labels[j] \in DOMAIN cluster_labels

\* ------------------------------------------------------------------ C19

\* C19: after a successful upload for transform t the key the handler holds is
\* visualizations/{t}/visualization-{timestamp}.html, the timestamp of the form
\* YYYY-MM-DDTHH:MM:SSZ, and the success envelope carries that key.
C19_FullKey ==
    \A h \in Handlers :
        pipeline[h].state = "uploaded" =>
            LET key == result[h].html_s3_key[1]
            IN  /\ Len(key) = 6
                /\ SubSeq(key, 1, 4) =
                     <<"visualizations/", Job(h).visualization_transform_id, "/",
                       "visualization-">>
                /\ Len(key[5]) = 12
                /\ \A i \in {1, 3, 5, 7, 9, 11} : key[5][i] \in Nat
                /\ <<key[5][2], key[5][4], key[5][6], key[5][8], key[5][10], key[5][12]>> =
                     <<"-", "-", "T", ":", ":", "Z">>
                /\ key[6] = ".html"
                /\ \A i \in TerminalCalls(h) : sent[h][i].data["htmlS3Key"] = key

\* ------------------------------------------------------------------ C20

\* C20: no handler issues a create-bucket request, whatever the store answers
\* about the bucket, and every request of every job names one and the same
\* bucket, which does not depend on the job.
C20_NoBucketCreated ==
    \A h \in Handlers : \A i \in DOMAIN requests[h] :
        /\ requests[h][i].op # "create_bucket"
        /\ \A g \in Handlers : \A j \in DOMAIN requests[g] :
             requests[g][j].bucket = requests[h][i].bucket
        /\ \A m \in 1..(MaxMsgs + 1) :
             requests[h][i].bucket = bucket_name(JobOf(m).visualization_transform_id)

\* ------------------------------------------------------------------ C21

\* C21: two successful uploads for the same transform (of a message and its
\* redelivery, or of two jobs of the transform) never store under the same
\* key of the same bucket: no artifact overwrites another.
C21_DistinctKeys ==
    \A h, g \in Handlers :
        (h # g /\ pipeline[h].state = "uploaded" /\ pipeline[g].state = "uploaded"
               /\ Job(h).visualization_transform_id = Job(g).visualization_transform_id) =>
            \A i \in DOMAIN requests[h], j \in DOMAIN requests[g] :
                (requests[h][i].op = "put_object" /\ requests[g][j].op = "put_object") =>
                    <<requests[h][i].bucket, requests[h][i].key>> #
                        <<requests[g][j].bucket, requests[g][j].key>>

\* ------------------------------------------------------------------ C22

\* C22: while jobs execute the health endpoints stay responsive: no health
\* request waits while a call of a handler (status publish, vector-store
\* scroll, LLM call, upload) or one of its stages holds the event loop.
C22_LoopResponsive ==
    probes > 0 => blocking = 0

\* ------------------------------------------------------------------ C23

\* C23: for every document the rendering stage returns after the patch,
\* verify_no_external_requests finds nothing: no URL of fonts.googleapis.com,
\* fonts.gstatic.com, maxcdn.bootstrapcdn.com, cdnjs.cloudflare.com,
\* fontawesome or unpkg.com is left, in whatever element it stood.
C23_VerifierFindsNothing ==
    patched # None => verify_no_external_requests(patched[1]) = <<>>

\* ------------------------------------------------------------------ C24

\* C24: the output of patch_html_fonts has no reference to
\* fonts.googleapis.com (link, preconnect or @import), and the head tags of
\* the input are all still there.
C24_NoGoogleFonts ==
    patched # None =>
        /\ \A i \in DOMAIN patched[1] : patched[1][i].url.host # "fonts.googleapis.com"
        /\ Cardinality({i \in DOMAIN patched[1] : patched[1][i].tag = "head"}) =
             Cardinality({i \in DOMAIN rendered[1] : rendered[1][i].tag = "head"})

\* ------------------------------------------------------------------ C25

\* C25: a job envelope whose transform, visualization or embedded-dataset
\* identifier is zero or negative, or whose collection name is empty, is
\* rejected with a validation error and never handed to handle_job.
C25_InvalidRejected ==
    job_data # None =>
        LET data == job_data[1]
            Positive(v) == v = None \/ v[1] > 0
        IN  (\/ ~Positive(data.visualization_transform_id)
             \/ ~Positive(data.visualization_id)
             \/ ~Positive(data.embedded_dataset_id)
             \/ data.qdrant_collection_name = Some("")) =>
                decoded = Some("ack_validation")

\* C26: at startup every attempt of the consumer binding first binds and only
\* when the bind fails creates; when both fail the sequence is retried after
\* the delay; there are at most NATS_STREAM_RETRY_ATTEMPTS attempts and one
\* delay fewer; the loop stops at the first success, and the fetch loop is
\* entered only with a bound or created subscription.
C26_BindThenCreate ==
    LET N == NATS_STREAM_RETRY_ATTEMPTS
        tried == subscribing.binds
        succeeded == consumer.how \in {"bound", "created"}
    IN
    /\ tried <= N /\ subscribing.sleeps <= N - 1
    /\ subscribing.calls \in {<<>>, <<"bind">>, <<"bind", "create">>, <<"bind", "create", "sleep">>}
    /\ subscribing.creates \in {tried - 1, tried} /\ subscribing.creates >= 0
    /\ main = "subscribe" =>
         /\ ~succeeded
         /\ tried = attempt - 1 /\ subscribing.creates = tried /\ subscribing.sleeps = tried
         /\ tried > 0 => subscribing.calls = <<"bind", "create", "sleep">>
    /\ succeeded =>
         /\ tried = attempt /\ subscribing.sleeps = tried - 1
         /\ subscribing.calls = IF consumer.how = "bound" THEN <<"bind">> ELSE <<"bind", "create">>
         /\ subscribing.creates = IF consumer.how = "bound" THEN tried - 1 ELSE tried
    /\ raised = "subscribe" =>
         /\ tried = N /\ subscribing.creates = N /\ subscribing.sleeps = N - 1
         /\ subscribing.calls = <<"bind", "create">>
    /\ Done(started, "fetch_loop") => succeeded

\* The binding succeeds by a create on the last attempt the loop has, after
\* every earlier attempt failed and was followed by a delay.
C26_Witness ==
    /\ consumer.how = "created"
    /\ attempt = NATS_STREAM_RETRY_ATTEMPTS
    /\ subscribing.sleeps = NATS_STREAM_RETRY_ATTEMPTS - 1
    /\ Done(started, "fetch_loop")

\* C27: only "stream does not exist" is retried; on a permanent error of the
\* bind and the create the sequence is not retried and startup fails at once.
C27_PermanentFailsAtOnce ==
    subscribing.error = "permanent" => raised = "subscribe"

C30_BoundedNamingCalls ==
    LET b == labelling.llm_batch_size
        size == IF b < 1 THEN 1 ELSE IF b > 100 THEN 100 ELSE b
        ids == {labelling.labels[i] : i \in DOMAIN labelling.labels} \ {-1}
        Before(c) == Cardinality({d \in ids : d < c})
        Nameable(c) == \E i \in DOMAIN labelling.labels :
                          labelling.labels[i] = c /\ labelling.texts[i] # ""
        open == namer.in_flight \cup DOMAIN namer.settled
    IN  /\ Cardinality(namer.in_flight) <= size
        /\ namer.batch_start % size = 0
        /\ \A c \in open :
              /\ c \in ids
              /\ Before(c) \in namer.batch_start .. namer.batch_start + size - 1
        /\ namer.in_flight # {} =>
              \A c \in ids : (Before(c) < namer.batch_start /\ Nameable(c)) =>
                  c \in DOMAIN namer.results
        /\ \A c \in DOMAIN namer.results : Before(c) < namer.batch_start

\* With batches of one and two clusters to name, the call for the second
\* cluster is in flight and the first cluster has its result.
C30_Witness ==
    /\ labelling.llm_batch_size = 1
    /\ namer.batch_start = 1
    /\ namer.in_flight = {1}
    /\ DOMAIN namer.results = {0}

\* ------------------------------------------------------------------ C36

\* C36: a delivery is settled at most once: its handler never issues an ack
\* and a nak, nor two naks, also when the ack or the nak itself raises after a
\* terminal publish that returned.
C36_SettledAtMostOnce ==
    \A h \in Handlers : Len(settles[h]) <= 1

\* ------------------------------------------------------------------ C34

\* C34: a starting or progress publish, whether it returns or raises, leaves
\* the job as it was: the result, the settle calls and the failure counts are
\* untouched and handle_job goes on with its next step, the pipeline with the
\* step after the callback (or its return after the last one).
C34_ProgressPublishIsFrameOnly ==
    [][\A h \in Handlers :
         (/\ Len(sent'[h]) = Len(sent[h]) + 1
          /\ sent'[h][Len(sent'[h])].data["status"] = "processing") =>
            /\ result'[h] = result[h]
            /\ settles'[h] = settles[h]
            /\ counted'[h] = counted[h]
            /\ acked' = acked
            /\ active_jobs' = active_jobs
            /\ processed'[h].vectors = processed[h].vectors
            /\ processed'[h].labels = processed[h].labels
            /\ IF pc[h] = "starting"
               THEN pc'[h] = "process" /\ pipeline'[h] = pipeline[h]
               ELSE \/ /\ pc'[h] = "pipeline"
                       /\ pipeline'[h] = [state |-> "running", step |-> pipeline[h].step + 1]
                    \/ /\ pc'[h] = "upload"
                       /\ pipeline[h].step = 15
                       /\ pipeline'[h] = [state |-> "returned", step |-> 15]]_vars

\* The starting publish and a progress publish raised, and the job ended with
\* a success envelope published and its message acked.
C34_Witness ==
    \E h \in Handlers :
        /\ pc[h] = "done"
        /\ Len(sent[h]) >= 3
        /\ ~sent[h][1].ok
        /\ \E i \in 2..(Len(sent[h]) - 1) : ~sent[h][i].ok
        /\ sent[h][Len(sent[h])].ok
        /\ sent[h][Len(sent[h])].data["status"] = "success"
        /\ settles[h] = <<[op |-> "ack", ok |-> TRUE]>>

\* ------------------------------------------------------------------ C35

\* C35: active_jobs is the number of handlers that have entered handle_job and
\* not left it, never negative; it is decremented on every way out of
\* handle_job, cancellation included, so it is 0 once no handler is inside.
C35_ActiveJobsCountsHandlers ==
    /\ active_jobs >= 0
    /\ active_jobs =
         Cardinality({h \in Handlers :
             pc[h] \in {"starting", "process", "pipeline", "upload", "publish_result", "ack", "nak"}})

\* ------------------------------------------------------------------ C40

\* C40: within a handler the order is pipeline, upload, terminal publish,
\* settle: the object store is called only after process_job has returned, a
\* success envelope is published only after the upload has returned its key
\* (the one the envelope carries), a failed terminal envelope carries no key,
\* no point count and no cluster count, nothing is published after the
\* terminal envelope, and the message of a job is settled only after it.
C40_HandlerOrder ==
    \A h \in Handlers :
        /\ requests[h] # <<>> =>
             /\ processed[h].returned # None
             /\ pipeline[h].state \in {"uploaded", "upload_failed"}
        /\ \A i \in DOMAIN sent[h] :
             LET data == sent[h][i].data IN
             data["status"] # "processing" =>
                /\ i = Len(sent[h])
                /\ pipeline[h].state \in {"raised", "cancelled", "uploaded", "upload_failed"}
                /\ data["status"] = "success" =>
                     /\ pipeline[h].state = "uploaded"
                     /\ \E j \in DOMAIN requests[h] :
                          /\ requests[h][j].op = "put_object"
                          /\ requests[h][j].key = Some(data["htmlS3Key"])
                /\ data["status"] = "failed" =>
                     {"htmlS3Key", "pointCount", "clusterCount"} \cap DOMAIN data = {}
        /\ (hmsg[h] # 0 /\ Decode(body[hmsg[h]]) = "job" /\ settles[h] # <<>>) =>
             sent[h] # <<>> /\ sent[h][Len(sent[h])].data["status"] # "processing"

\* The pipeline returned its counts, the upload raised, and the handler has
\* published the failed envelope and acked.
C40_Witness ==
    \E h \in Handlers :
        /\ pipeline[h].state = "upload_failed"
        /\ processed[h].returned # None
        /\ pc[h] = "done"
        /\ sent[h][Len(sent[h])].data["status"] = "failed"
        /\ settles[h] = <<[op |-> "ack", ok |-> TRUE]>>

\* ------------------------------------------------------------------ C37

\* C37: no message a fetch returns is dropped: the fetch loop creates a
\* handler task for each (it has no nak of its own), also for a batch that
\* arrives when the shutdown flag is set.
C37_NoFetchedMessageDropped ==
    [][(main = "fetching" /\ fetched' > fetched) =>
          tasks' - tasks = fetched' - fetched]_vars

\* ------------------------------------------------------------------ C38

\* C38: the drain covers every handler task the fetch loop has created, also
\* one that has not started when the flag is set: the broker connection is
\* closed only when no task is waiting to start and no handler is inside
\* handle_job, or when the drain has given up after its budget.
C38_SpawnedTasksDrained ==
    Done(stopped, "nats") => ((tasks = 0 /\ active_jobs = 0) \/ drain_elapsed)

\* ------------------------------------------------------------------ C31

C32_ScrollTerminates ==
    (scroll.pc = "scrolling") ~> (scroll.pc = "done")

\* ------------------------------------------------------------------ C33

\* C33: the prompt of a cluster is made of exactly the first k texts of the
\* cluster that are not empty, of all of them when there are fewer, where k is
\* the samples_per_cluster of the LLM configuration bag, 5 when the bag does
\* not set it. (Checked for the bags that set no k or a k of at least 1.)
C33_FirstKTexts ==
    sampling # None =>
        LET in == sampling[1].in
            k == IF in.config = <<>> THEN 5 ELSE in.config["samples_per_cluster"]
            nonempty == SelectSeq(in.texts, LAMBDA t : t # 0)
            expected == SubSeq(nonempty, 1, IF k < Len(nonempty) THEN k ELSE Len(nonempty))
        IN  k >= 1 => sampling[1].prompt = expected

\* ------------------------------------------------------------------ C39

\* C39: a key returned by upload_visualization for an owner and a transform is
\* accepted by get_visualization_url and by delete_visualization called with
\* that owner and transform, and the call addresses the object uploaded.
C39_KeyRoundTrip ==
    stored.last # None =>
        LET call == stored.last[1]
        IN  \A u \in stored.uploads :
                (u.owner = call.owner /\ u.transform_id = call.transform_id
                 /\ u.key = call.s3_key)
                => (~call.raised /\ call.addressed = Some(u.object))

====
